---- MODULE Spec2Model ----
(***************************************************************************)
(* State-machine model of the sprint-buddy accountability tracker.         *)
(*                                                                         *)
(* Two pages exist in the repository: src/unnamed/part_000 (the page with  *)
(* the proof database, called variant "proof" here) and src/app/page.tsx   *)
(* (the page with weekly targets and the reward vault, variant "vault").   *)
(* Both keep the same wallet, deadline and streak code; they differ in     *)
(* normalizeActions, buildSuggestedTasks, suggestActions and addAction.    *)
(*                                                                         *)
(* Representation                                                          *)
(*   - text is a TLA+ string; a character is a string of length one;       *)
(*   - money is an integer number of cents (the code keeps dollars rounded *)
(*     to two decimals);                                                   *)
(*   - an instant is an integer number of milliseconds of UTC time since   *)
(*     00:00 UTC of day 0; a day key ("YYYY-MM-DD") is the day's number;   *)
(*   - the host's time zone is off = local time - UTC, in hours;           *)
(*   - a JSON value is a record tagged with its JavaScript type, a JSON    *)
(*     number being written in hundredths;                                 *)
(*   - localStorage is the two items storedState and storedProofDb, each   *)
(*     absent, an empty text, a text that is no JSON, or a JSON value.     *)
(***************************************************************************)
EXTENDS Integers, Sequences, FiniteSets, TLC

VARIABLES
    variant,         \* which page runs: "proof" (part_000) or "vault" (page.tsx)
    off,             \* host time zone: local time minus UTC, in hours
    now,             \* wall-clock instant read by the latest render (new Date())
    plannerGoal,     \* useState(initialState.plannerGoal)
    plannerProblem,  \* useState(initialState.plannerProblem)
    actions,         \* useState<ActionItem[]>(initialState.actions)
    actionDraft,     \* useState("")
    strictMode,      \* useState(initialState.strictMode)
    deadlineTime,    \* useState(initialState.deadlineTime)
    stakeBalance,    \* useState(initialState.stakeBalance), in cents
    stakePerMiss,    \* useState(initialState.stakePerMiss), in cents
    totalPenalties,  \* useState(initialState.totalPenalties), in cents
    lastPenaltyDate, \* useState(initialState.lastPenaltyDate), a day key
    depositDraft,    \* useState("20")
    proofLog,        \* useState(initialState.proofLog)
    proofDb,         \* part_000: useState<ProofEntry[]>(() => loadProofDb())
    weeklyTarget,    \* page.tsx: useState(initialState.weeklyTarget)
    rewards,         \* page.tsx: useState<RewardItem[]>(initialState.rewards)
    rewardTitleDraft,  \* page.tsx: useState("")
    rewardStreakDraft, \* page.tsx: useState("3")
    initialState,    \* useState<SavedState>(() => loadSavedState())
    storedState,     \* localStorage item of the state key
    storedProofDb,   \* part_000: localStorage item of the proof key
    nextId,          \* number of ids crypto.randomUUID() has handed out
    ops,             \* number of handler invocations so far
    lastOp,          \* history: the latest handler invocation and its argument
    penaltyLog,      \* history: every applyPenalty invocation, its todayKey and
                     \* whether it changed stakeBalance or totalPenalties
    suggestLog       \* history: every suggestActions invocation, its two inputs
                     \* and the task list the suggestion engine returned

vars == <<variant, off, now, plannerGoal, plannerProblem, actions, actionDraft,
          strictMode, deadlineTime, stakeBalance, stakePerMiss, totalPenalties,
          lastPenaltyDate, depositDraft, proofLog, proofDb, weeklyTarget, rewards,
          rewardTitleDraft, rewardStreakDraft, initialState, storedState,
          storedProofDb, nextId, ops, lastOp, penaltyLog, suggestLog>>

-----------------------------------------------------------------------------
(* Bounds of the model.                                                    *)

MaxDay == 2          \* the clock runs over days 1..MaxDay
MaxOps == 2          \* handler invocations explored from each loaded state
MaxStreakDay == 3    \* day keys 1..MaxStreakDay in the streak inputs
MaxCandidates == 3   \* length of the candidate lists handed to normalizeActions

-----------------------------------------------------------------------------
(* Units.                                                                  *)

MinuteMs == 60000
HourMs == 3600000
DayMs == 86400000

EmptyDate == 0       \* the day key "" (defaultState.lastPenaltyDate)

Min(a, b) == IF a <= b THEN a ELSE b
Max(a, b) == IF a >= b THEN a ELSE b

-----------------------------------------------------------------------------
(* Strings.                                                                *)

CharAt(s, i) == SubSeq(s, i, i)

UpperAlphabet == "ABCDEFGHIJKLMNOPQRSTUVWXYZ"
LowerAlphabet == "abcdefghijklmnopqrstuvwxyz"
DigitAlphabet == "0123456789"

LowerChars == {CharAt(LowerAlphabet, i) : i \in 1..26}
DigitChars == {CharAt(DigitAlphabet, i) : i \in 1..10}
LowerMap ==
    [c \in {CharAt(UpperAlphabet, i) : i \in 1..26} |->
        CharAt(LowerAlphabet, CHOOSE i \in 1..26 : CharAt(UpperAlphabet, i) = c)]
DigitMap ==
    [c \in DigitChars |-> (CHOOSE i \in 1..10 : CharAt(DigitAlphabet, i) = c) - 1]

\* String.prototype.toLowerCase, on ASCII text
\* (the characters lo..hi, by halves)
RECURSIVE LowerRange(_, _, _)
LowerRange(s, lo, hi) ==
    IF lo > hi THEN ""
    ELSE IF lo = hi
    THEN LET c == CharAt(s, lo) IN IF c \in DOMAIN LowerMap THEN LowerMap[c] ELSE c
    ELSE LET mid == (lo + hi) \div 2
         IN  LowerRange(s, lo, mid) \o LowerRange(s, mid + 1, hi)
toLowerCase(s) == LowerRange(s, 1, Len(s))

\* white space as String.prototype.trim and Number() see it
IsWhiteSpace(c) == c \in {" ", "\t", "\n", "\r"}

RECURSIVE FirstNonSpace(_, _)
FirstNonSpace(s, i) ==
    IF i > Len(s) \/ ~IsWhiteSpace(CharAt(s, i)) THEN i ELSE FirstNonSpace(s, i + 1)
RECURSIVE LastNonSpace(_, _)
LastNonSpace(s, i) ==
    IF i < 1 \/ ~IsWhiteSpace(CharAt(s, i)) THEN i ELSE LastNonSpace(s, i - 1)
\* String.prototype.trim
trim(s) == SubSeq(s, FirstNonSpace(s, 1), LastNonSpace(s, Len(s)))

\* String.prototype.replace(/[^a-z0-9]+/g, " "): each maximal run of characters
\* outside a-z0-9 becomes one space
\* a character of a-z0-9 stays; of a run of other characters, the first one
\* becomes the space and the rest vanish (the characters lo..hi, by halves)
InClass(c) == c \in LowerChars \/ c \in DigitChars
RECURSIVE ReplaceRunsRange(_, _, _)
ReplaceRunsRange(s, lo, hi) ==
    IF lo > hi THEN ""
    ELSE IF lo = hi
    THEN IF InClass(CharAt(s, lo)) THEN CharAt(s, lo)
         ELSE IF lo > 1 /\ ~InClass(CharAt(s, lo - 1)) THEN ""
         ELSE " "
    ELSE LET mid == (lo + hi) \div 2
         IN  ReplaceRunsRange(s, lo, mid) \o ReplaceRunsRange(s, mid + 1, hi)
ReplaceRuns(s) == ReplaceRunsRange(s, 1, Len(s))

normalizeTaskText(value) == trim(ReplaceRuns(toLowerCase(value)))

\* RegExp.test for a literal phrase: the phrase occurs somewhere in the text
Contains(text, phrase) ==
    \E i \in 1..(Len(text) - Len(phrase) + 1) :
        SubSeq(text, i, i + Len(phrase) - 1) = phrase
ContainsAny(text, phrases) == \E p \in phrases : Contains(text, p)

\* RegExp.test for /(a|b).*(c)/: one of `firsts`, then `second` later on the
\* same line ("." matches no line terminator)
ContainsThen(text, firsts, second) ==
    \E f \in firsts :
        \E i \in 1..(Len(text) - Len(f) + 1) :
            /\ SubSeq(text, i, i + Len(f) - 1) = f
            /\ \E j \in (i + Len(f))..(Len(text) - Len(second) + 1) :
                   /\ SubSeq(text, j, j + Len(second) - 1) = second
                   /\ \A k \in (i + Len(f))..(j - 1) : CharAt(text, k) \notin {"\n", "\r"}

-----------------------------------------------------------------------------
(* Numbers.  Number(value) of a string is modelled on decimal literals:    *)
(* optional white space, an optional sign, digits with an optional         *)
(* fraction.  The result is NaN or a value in thousandths.                 *)

NaN == [nan |-> TRUE, milli |-> 0]
Finite(m) == [nan |-> FALSE, milli |-> m]

RECURSIVE DigitsValue(_, _, _)
DigitsValue(s, i, acc) ==
    IF i > Len(s) THEN acc ELSE DigitsValue(s, i + 1, 10 * acc + DigitMap[CharAt(s, i)])

AllDigits(s) == \A i \in 1..Len(s) : CharAt(s, i) \in DigitChars

\* the first three fraction digits, as thousandths
FractionMilli(f) ==
    LET padded == SubSeq(f \o "000", 1, 3) IN DigitsValue(padded, 1, 0)

UnsignedLiteral(s) ==
    LET dots == {i \in 1..Len(s) : CharAt(s, i) = "."}
    IN  IF dots = {} THEN
            IF Len(s) > 0 /\ AllDigits(s) THEN Finite(1000 * DigitsValue(s, 1, 0)) ELSE NaN
        ELSE IF Cardinality(dots) > 1 THEN NaN
        ELSE LET d == CHOOSE i \in dots : TRUE
                 ip == SubSeq(s, 1, d - 1)
                 fp == SubSeq(s, d + 1, Len(s))
             IN  IF Len(ip) + Len(fp) = 0 \/ ~AllDigits(ip) \/ ~AllDigits(fp) THEN NaN
                 ELSE Finite(1000 * DigitsValue(ip, 1, 0) + FractionMilli(fp))

\* Number(value) for a string value
NumberOf(value) ==
    LET t == trim(value)
    IN  IF t = "" THEN Finite(0)
        ELSE IF CharAt(t, 1) = "-" THEN
            LET u == UnsignedLiteral(SubSeq(t, 2, Len(t)))
            IN  IF u.nan THEN NaN ELSE Finite(0 - u.milli)
        ELSE IF CharAt(t, 1) = "+" THEN UnsignedLiteral(SubSeq(t, 2, Len(t)))
        ELSE UnsignedLiteral(t)

\* Math.round(parsed * 100) / 100, as cents: halves round towards +infinity
RoundToCents(milli) == (milli + 5) \div 10

toPositiveNumber(value, fallback) ==
    LET parsed == NumberOf(value)
    IN  IF parsed.nan \/ parsed.milli < 0 THEN fallback ELSE RoundToCents(parsed.milli)

-----------------------------------------------------------------------------
(* Clock and calendar.                                                     *)

\* new Date().toISOString().slice(0, 10): the UTC date of an instant
DateKeyOf(instant) == instant \div DayMs

getTodayKey == DateKeyOf(now)

\* new Date(`${key}T00:00:00`): a date-time without zone is LOCAL midnight
LocalMidnight(key) == key * DayMs - off * HourMs

\* milliseconds since local midnight of the local day of `instant`
LocalMsOfDay(instant) == (instant + off * HourMs) % DayMs

\* ToIntegerOrInfinity, as Date.prototype.setHours applies it to its arguments
Truncate(milli) == IF milli >= 0 THEN milli \div 1000 ELSE 0 - ((0 - milli) \div 1000)

-----------------------------------------------------------------------------
(* Streak.                                                                 *)

Range(seq) == {seq[j] : j \in 1..Len(seq)}

\* the Set built by the two for-loops of getCurrentStreak
daysWithCompletion(list) == UNION {Range(list[i].completedDates) : i \in 1..Len(list)}

\* the while loop of getCurrentStreak: `cursor` is an instant
RECURSIVE StreakLoop(_, _, _)
StreakLoop(days, cursor, streak) ==
    IF DateKeyOf(cursor) \notin days THEN streak
    ELSE StreakLoop(days, cursor - DayMs, streak + 1)

getCurrentStreak(list, todayKey) ==
    StreakLoop(daysWithCompletion(list), LocalMidnight(todayKey), 0)

-----------------------------------------------------------------------------
(* Deadline.                                                               *)

\* deadlineTime.split(":"): the part before the first colon, and the part
\* between the first and the second colon (NoPart when there is no colon)
NoPart == [present |-> FALSE, text |-> ""]
Part(t) == [present |-> TRUE, text |-> t]

RECURSIVE ColonFrom(_, _)
ColonFrom(s, i) ==
    IF i > Len(s) \/ CharAt(s, i) = ":" THEN i ELSE ColonFrom(s, i + 1)

SplitHead(s) == Part(SubSeq(s, 1, ColonFrom(s, 1) - 1))
SplitSecond(s) ==
    LET c == ColonFrom(s, 1)
    IN  IF c > Len(s) THEN NoPart ELSE Part(SubSeq(s, c + 1, ColonFrom(s, c + 1) - 1))

\* Number(part); Number(undefined) is NaN
NumberOfPart(p) == IF p.present THEN NumberOf(p.text) ELSE NaN

\* variation: the deadline instant itself counts as past (>= for >)
isPastDeadlineAt_inclusive(deadline, instant) ==
    LET h == NumberOfPart(SplitHead(deadline))
        m == NumberOfPart(SplitSecond(deadline))
    IN  IF h.nan \/ m.nan THEN FALSE
        ELSE LET deadlineMs == Truncate(h.milli) * HourMs + Truncate(m.milli) * MinuteMs
             IN  LocalMsOfDay(instant) >= deadlineMs

isPastDeadlineAt(deadline, instant) ==
    LET h == NumberOfPart(SplitHead(deadline))
        m == NumberOfPart(SplitSecond(deadline))
    IN  IF h.nan \/ m.nan THEN FALSE
        ELSE LET deadlineMs == Truncate(h.milli) * HourMs + Truncate(m.milli) * MinuteMs
             IN  LocalMsOfDay(instant) > deadlineMs

isPastDeadline(deadline) == isPastDeadlineAt(deadline, now)

-----------------------------------------------------------------------------
(* Resistance classifier and task suggestion (part_000).                   *)

\* variation: inertia is checked before anxiety
detectResistance_inertiaFirst(goal, blocker) ==
    LET text == toLowerCase(goal \o " " \o blocker)
    IN  IF ContainsAny(text, {"don't know where to start", "not sure how",
                              "don't know what to do", "where do i begin", "no idea",
                              "confused about", "what should i"}) THEN "ambiguity"
        ELSE IF ContainsAny(text, {"too much", "so many things", "everything",
                              "a lot to do", "piling up", "can't keep up", "buried",
                              "behind on"}) THEN "overwhelm"
        ELSE IF ContainsAny(text, {"keep putting off", "procrastinat", "avoiding",
                              "haven't started", "been meaning to", "weeks", "months",
                              "forever"}) THEN "inertia"
        ELSE IF ContainsAny(text, {"stressing", "stressed", "worried", "scared",
                              "nervous", "afraid", "matters a lot", "important",
                              "can't mess up", "pressure"}) THEN "anxiety"
        ELSE IF ContainsAny(text, {"has to be perfect", "not good enough", "redoing",
                              "can't finish", "keep starting over",
                              "nothing feels right"}) THEN "perfectionism"
        ELSE "default"

detectResistance(goal, blocker) ==
    LET text == toLowerCase(goal \o " " \o blocker)
    IN  IF ContainsAny(text, {"don't know where to start", "not sure how",
                              "don't know what to do", "where do i begin", "no idea",
                              "confused about", "what should i"}) THEN "ambiguity"
        ELSE IF ContainsAny(text, {"too much", "so many things", "everything",
                              "a lot to do", "piling up", "can't keep up", "buried",
                              "behind on"}) THEN "overwhelm"
        ELSE IF ContainsAny(text, {"stressing", "stressed", "worried", "scared",
                              "nervous", "afraid", "matters a lot", "important",
                              "can't mess up", "pressure"}) THEN "anxiety"
        ELSE IF ContainsAny(text, {"keep putting off", "procrastinat", "avoiding",
                              "haven't started", "been meaning to", "weeks", "months",
                              "forever"}) THEN "inertia"
        ELSE IF ContainsAny(text, {"has to be perfect", "not good enough", "redoing",
                              "can't finish", "keep starting over",
                              "nothing feels right"}) THEN "perfectionism"
        ELSE "default"

\* variation: the tasks already in the list are left out
buildSuggestedTasks_unlisted(goal, problem) ==
    SelectSeq(<<"Clear your desk and throw away anything that does not belong there for 4 minutes.",
                "Open the file you need and set up only the tools you need in 3 minutes.",
                "Outline the next 3 steps for your project in bullet points for 8 minutes only.",
                "Stand up, get water, and come back to your desk in 3 minutes.",
                "Set a 10-minute timer and finish one paragraph for your project, nothing more.",
                "Put a check mark next to what you finished and write one next action in 2 minutes.">>,
              LAMBDA task : \A i \in 1..Len(actions) : actions[i].text # task)

buildSuggestedTasks(goal, problem) ==
    LET cleanGoal == IF trim(goal) = "" THEN "your main phd goal" ELSE trim(goal)
        cleanProblem == IF trim(problem) = "" THEN "starting feels hard" ELSE trim(problem)
        resistance == detectResistance(cleanGoal, cleanProblem)
        text == toLowerCase(cleanGoal \o " " \o cleanProblem)
        hasRoom == ContainsAny(text, {"room", "floor", "vacuum", "clean", "tidy",
                                      "organize", "organise", "mess"})
        hasSourdough == ContainsAny(text, {"sourdough", "starter", "bread", "bake"})
        hasPaper == ContainsAny(text, {"paper", "manuscript", "thesis", "research",
                                       "journal", "discussion", "results", "experiment",
                                       "figure", "figures"})
        hasEditingFigures == ContainsAny(text, {"edit figure", "editing figure",
                                       "figure edit", "fix figure", "figure formatting",
                                       "axis label"})
        hasDiscussion == \/ ContainsThen(text, {"write", "draft"}, "discussion")
                         \/ Contains(text, "discussion section")
        hasResults == \/ ContainsThen(text, {"write", "draft"}, "result")
                      \/ Contains(text, "results section")
                      \/ Contains(text, "experiment")
        hasProject == ContainsAny(text, {"project", "write", "code", "study", "design",
                                         "plan", "finish"})
        slot1 == IF hasRoom
                 THEN "Pick up everything on your floor and put it on your bed for 5 minutes."
                 ELSE "Clear your desk and throw away anything that does not belong there for 4 minutes."
        slot2 == IF hasSourdough
                 THEN "Feed your sourdough starter: 50g flour, 50g water, stir, and put the lid on."
                 ELSE IF hasEditingFigures \/ hasPaper
                 THEN "Open your figure file, zoom in on figure 1, and set your toolbar for editing in 3 minutes."
                 ELSE "Open the file you need and set up only the tools you need in 3 minutes."
        slot3 == IF hasEditingFigures
                 THEN "Fix the axis labels and adjust font sizes on figure 1 for 10 minutes only, then stop."
                 ELSE IF hasDiscussion
                 THEN "Open your discussion section, read your results section, and write one sentence about what your main finding means in 10 minutes only."
                 ELSE IF resistance = "ambiguity"
                 THEN "Open your project document and write one sentence: what done looks like for this project, 8 minutes only."
                 ELSE "Outline the next 3 steps for your project in bullet points for 8 minutes only."
        slot4 == IF hasRoom
                 THEN "Vacuum the floor for 7 minutes and stop when the timer ends."
                 ELSE "Stand up, get water, and come back to your desk in 3 minutes."
        slot5 == IF hasResults
                 THEN "Pick one experiment, write one result sentence, and add the figure reference for 10 minutes only."
                 ELSE IF hasEditingFigures
                 THEN "Export figure 1 as a 300 dpi PNG and do not touch figure 2 for 8 minutes only."
                 ELSE IF resistance = "anxiety"
                 THEN "Set a 10-minute timer, open your project, and finish one paragraph that starts with your best guess."
                 ELSE IF resistance = "inertia"
                 THEN "Set a 10-minute timer, open your project, and add exactly one sentence to move it forward."
                 ELSE IF resistance = "perfectionism"
                 THEN "Set a 10-minute timer, write one rough paragraph, and keep it even if it is imperfect."
                 ELSE "Set a 10-minute timer and finish one paragraph for your project, nothing more."
        slot6 == IF hasPaper \/ hasProject
                 THEN "Save your document, close the file, and write one line for your next action in 2 minutes."
                 ELSE "Put a check mark next to what you finished and write one next action in 2 minutes."
        tasks == <<slot1, slot2, slot3, slot4, slot5, slot6>>
    IN  SubSeq(tasks, 1, Min(6, Len(tasks)))

-----------------------------------------------------------------------------
(* Task suggestion (page.tsx).                                             *)

buildSuggestedTasks_page(goal, problem) ==
    LET text == toLowerCase(goal \o " " \o problem)
        base == <<"define one exact deliverable for today in one sentence",
                  "run one 25-minute deep-work sprint on the hardest task first",
                  "write one proof note of what moved forward and by how much">>
        t1 == IF ContainsAny(text, {"read", "paper", "literature", "review", "article",
                                    "source"})
              THEN Append(base, "read one paper and capture exactly 3 notes for your thesis")
              ELSE base
        t2 == IF ContainsAny(text, {"write", "draft", "chapter", "manuscript", "thesis",
                                    "proposal"})
              THEN Append(t1, "draft 200 words before any editing")
              ELSE t1
        t3 == IF ContainsAny(text, {"data", "analysis", "code", "experiment", "model",
                                    "run", "stat"})
              THEN Append(t2, "finish one analysis run and save one evidence screenshot")
              ELSE t2
        t4 == IF ContainsAny(text, {"stuck", "overwhelm", "confus", "procrast", "delay",
                                    "avoid"})
              THEN Append(t3, "do a 10-minute rough first pass to break resistance")
              ELSE t3
        t5 == IF Len(t4) < 5
              THEN Append(t4, "send advisor/accountability buddy one concrete update")
              ELSE t4
    IN  SubSeq(t5, 1, Min(5, Len(t5)))

-----------------------------------------------------------------------------
(* JSON values, as JSON.parse returns them.  A day key stored as a string  *)
(* is written JString(day number), an ISO instant JString(instant), and a  *)
(* number is written in hundredths (money is in cents already).            *)

JUndefined == [t |-> "undefined"]
JNull == [t |-> "null"]
JNumber(n) == [t |-> "number", v |-> n]
JString(s) == [t |-> "string", v |-> s]
JBoolean(b) == [t |-> "boolean", v |-> b]
JArray(seq) == [t |-> "array", v |-> seq]
JObject(fields) == [t |-> "object", v |-> fields]

\* typeof
typeof(j) == IF j.t \in {"null", "array"} THEN "object" ELSE j.t
\* Array.isArray
isArray(j) == j.t = "array"
\* the value is falsy (!item)
Falsy(j) ==
    \/ j.t \in {"undefined", "null"}
    \/ j.t = "boolean" /\ ~j.v
    \/ j.t = "number" /\ j.v = 0
    \/ j.t = "string" /\ j.v = ""
\* property access on a value that is neither null nor undefined
Get(j, name) ==
    IF j.t = "object" /\ name \in DOMAIN j.v THEN j.v[name] ELSE JUndefined

\* what localStorage.getItem returns: null, or a text given by what
\* JSON.parse makes of it (a value, or a SyntaxError)
NoItem == [present |-> FALSE]
EmptyText == [present |-> TRUE, empty |-> TRUE]
Unparsable == [present |-> TRUE, empty |-> FALSE, parses |-> FALSE]
Stored(j) == [present |-> TRUE, empty |-> FALSE, parses |-> TRUE, value |-> j]

-----------------------------------------------------------------------------
(* Task normalizer.                                                        *)

ActionItem(id, text, completedDates) ==
    [id |-> id, text |-> text, completedDates |-> completedDates]

\* the .map callback of normalizeActions: an ActionItem, or null (<<>>)
MapActionItem(item) ==
    IF Falsy(item) \/ typeof(item) # "object" THEN <<>>
    ELSE IF typeof(Get(item, "id")) # "string" \/ typeof(Get(item, "text")) # "string"
    THEN <<>>
    ELSE LET dates == Get(item, "completedDates")
             kept == IF isArray(dates)
                     THEN SelectSeq(dates.v, LAMBDA entry : typeof(entry) = "string")
                     ELSE <<>>
         IN  <<ActionItem(Get(item, "id").v, Get(item, "text").v,
                          [k \in 1..Len(kept) |-> kept[k].v])>>

\* variation: a kept entry goes to the front of the result
RECURSIVE FilterSeen_newestFirst(_, _, _)
FilterSeen_newestFirst(mapped, i, seen) ==
    IF i > Len(mapped) THEN <<>>
    ELSE IF mapped[i] = <<>> THEN FilterSeen_newestFirst(mapped, i + 1, seen)
    ELSE LET key == normalizeTaskText(mapped[i][1].text)
         IN  IF key = "" \/ key \in seen THEN FilterSeen_newestFirst(mapped, i + 1, seen)
             ELSE FilterSeen_newestFirst(mapped, i + 1, seen \cup {key}) \o mapped[i]

\* the .filter callback of normalizeActions (part_000), with its `seen` set
RECURSIVE FilterSeen(_, _, _)
FilterSeen(mapped, i, seen) ==
    IF i > Len(mapped) THEN <<>>
    ELSE IF mapped[i] = <<>> THEN FilterSeen(mapped, i + 1, seen)
    ELSE LET key == normalizeTaskText(mapped[i][1].text)
         IN  IF key = "" \/ key \in seen THEN FilterSeen(mapped, i + 1, seen)
             ELSE mapped[i] \o FilterSeen(mapped, i + 1, seen \cup {key})

normalizeActions(value) ==
    IF ~isArray(value) THEN <<>>
    ELSE FilterSeen([i \in 1..Len(value.v) |-> MapActionItem(value.v[i])], 1, {})

\* page.tsx: the .filter callback only drops the nulls
RECURSIVE FilterNull(_, _)
FilterNull(mapped, i) ==
    IF i > Len(mapped) THEN <<>>
    ELSE mapped[i] \o FilterNull(mapped, i + 1)

normalizeActions_page(value) ==
    IF ~isArray(value) THEN <<>>
    ELSE FilterNull([i \in 1..Len(value.v) |-> MapActionItem(value.v[i])], 1)

-----------------------------------------------------------------------------
(* State codec.                                                            *)

defaultState ==
    [plannerGoal |-> JString(""), plannerProblem |-> JString(""), actions |-> <<>>,
     proofLog |-> JString(""), strictMode |-> JBoolean(TRUE),
     deadlineTime |-> JString("21:00"), stakeBalance |-> 0, stakePerMiss |-> 1500,
     totalPenalties |-> 0, lastPenaltyDate |-> JString(EmptyDate)]

\* page.tsx: the two fields its defaultState has besides
defaultState_page == [weeklyTarget |-> 10, rewards |-> <<>>]

\* {...defaultState, ...parsed}: a field parsed has overrides the default,
\* whatever its type
Spread(parsed, name) ==
    IF Get(parsed, name).t = "undefined" THEN defaultState[name] ELSE Get(parsed, name)

\* variation: the sign of a stored number is not checked
NonNegativeOr_anyNumber(j, default) ==
    IF typeof(j) = "number" THEN j.v ELSE default

\* typeof x === "number" && x >= 0 ? x : default
NonNegativeOr(j, default) ==
    IF typeof(j) = "number" /\ j.v >= 0 THEN j.v ELSE default

\* Math.round of a non-negative number given in hundredths
MathRound(hundredths) == (hundredths + 50) \div 100

\* typeof x === "number" && x > 0 ? Math.round(x) : default
RoundedPositiveOr(j, default) ==
    IF typeof(j) = "number" /\ j.v > 0 THEN MathRound(j.v) ELSE default

RewardItem(id, title, unlockStreak, claimed) ==
    [id |-> id, title |-> title, unlockStreak |-> unlockStreak, claimed |-> claimed]

\* the .map callback of normalizeRewards: a RewardItem, or null (<<>>)
MapRewardItem(item) ==
    IF Falsy(item) \/ typeof(item) # "object" THEN <<>>
    ELSE IF typeof(Get(item, "id")) # "string" \/ typeof(Get(item, "title")) # "string"
    THEN <<>>
    ELSE <<RewardItem(Get(item, "id").v, Get(item, "title").v,
                      RoundedPositiveOr(Get(item, "unlockStreak"), 3),
                      ~Falsy(Get(item, "claimed")))>>

normalizeRewards(value) ==
    IF ~isArray(value) THEN <<>>
    ELSE FilterNull([i \in 1..Len(value.v) |-> MapRewardItem(value.v[i])], 1)

\* the try block of loadSavedState throws: JSON.parse fails, or parsed is null
\* and parsed.actions is read
loadSavedStateThrows(saved) ==
    saved.present /\ ~saved.empty /\ (~saved.parses \/ saved.value.t = "null")

loadSavedState(saved, page) ==
    IF ~saved.present \/ saved.empty THEN
        IF page = "proof" THEN defaultState ELSE defaultState @@ defaultState_page
    ELSE IF loadSavedStateThrows(saved) THEN
        IF page = "proof" THEN defaultState ELSE defaultState @@ defaultState_page
    ELSE LET parsed == saved.value
             common ==
               [plannerGoal |-> Spread(parsed, "plannerGoal"),
                plannerProblem |-> Spread(parsed, "plannerProblem"),
                proofLog |-> Spread(parsed, "proofLog"),
                strictMode |-> Spread(parsed, "strictMode"),
                deadlineTime |-> Spread(parsed, "deadlineTime"),
                lastPenaltyDate |-> Spread(parsed, "lastPenaltyDate"),
                actions |-> IF page = "proof"
                            THEN normalizeActions(Get(parsed, "actions"))
                            ELSE normalizeActions_page(Get(parsed, "actions")),
                stakeBalance |->
                    NonNegativeOr(Get(parsed, "stakeBalance"), defaultState.stakeBalance),
                stakePerMiss |->
                    NonNegativeOr(Get(parsed, "stakePerMiss"), defaultState.stakePerMiss),
                totalPenalties |->
                    NonNegativeOr(Get(parsed, "totalPenalties"), defaultState.totalPenalties)]
         IN  IF page = "proof" THEN common
             ELSE common @@
                  [weeklyTarget |-> RoundedPositiveOr(Get(parsed, "weeklyTarget"),
                                                      defaultState_page.weeklyTarget),
                   rewards |-> normalizeRewards(Get(parsed, "rewards"))]

\* variation: the catch block leaves the item in place
afterLoadSavedState_kept(saved) == saved

\* what localStorage holds under the state key when loadSavedState returns:
\* the catch block removes the item
afterLoadSavedState(saved) ==
    IF loadSavedStateThrows(saved) THEN NoItem ELSE saved

ProofEntry(id, date, note, streakAt, progress) ==
    [id |-> id, date |-> date, note |-> note, streak |-> streakAt, progress |-> progress]

\* the .map callback of loadProofDb: a ProofEntry, or null (<<>>); streak and
\* progress are numbers in hundredths
MapProofEntry(item, instant) ==
    IF typeof(Get(item, "id")) # "string" \/ typeof(Get(item, "note")) # "string"
    THEN <<>>
    ELSE <<ProofEntry(Get(item, "id").v,
                      IF typeof(Get(item, "date")) = "string"
                      THEN Get(item, "date").v ELSE instant,
                      Get(item, "note").v,
                      IF typeof(Get(item, "streak")) = "number"
                      THEN Get(item, "streak").v ELSE 0,
                      IF typeof(Get(item, "progress")) = "number"
                      THEN Get(item, "progress").v ELSE 0)>>

loadProofDb(raw, instant) ==
    IF ~raw.present \/ raw.empty THEN <<>>
    ELSE IF ~raw.parses THEN <<>>
    ELSE IF ~isArray(raw.value) THEN <<>>
    ELSE LET entries == SelectSeq(raw.value.v,
                            LAMBDA entry : ~Falsy(entry) /\ typeof(entry) = "object")
         IN  FilterNull([i \in 1..Len(entries) |-> MapProofEntry(entries[i], instant)], 1)

\* what localStorage holds under the proof key when loadProofDb returns
afterLoadProofDb(raw) ==
    IF raw.present /\ ~raw.empty /\ ~raw.parses THEN NoItem ELSE raw

\* the state value of a field the codec does not validate: a string or a
\* boolean as itself, anything else as the JSON value it is
Untag(j) == IF j.t \in {"string", "boolean", "number"} THEN j.v ELSE j

-----------------------------------------------------------------------------
(* Values derived by each render of Home.                                  *)

todayKey == getTodayKey
doneToday(action) == todayKey \in Range(action.completedDates)
completedCount == Len(SelectSeq(actions, doneToday))
\* variation: the percentage is truncated (Math.floor for Math.round)
dailyProgress_floor ==
    IF Len(actions) = 0 THEN 0
    ELSE (100 * completedCount) \div Len(actions)
\* Math.round((completedCount / actions.length) * 100)
dailyProgress ==
    IF Len(actions) = 0 THEN 0
    ELSE (200 * completedCount + Len(actions)) \div (2 * Len(actions))
streak == getCurrentStreak(actions, todayKey)
deadlinePassed == isPastDeadline(deadlineTime)
missedTasks == Len(SelectSeq(actions, LAMBDA action : ~doneToday(action)))
rawPenalty == missedTasks * stakePerMiss
\* variation: the penalty is not capped by the balance
penaltyToday_uncapped == rawPenalty
penaltyToday == Min(stakeBalance, rawPenalty)

\* variation: the date stamp is not part of the gate
canApplyPenalty_noStamp ==
    /\ strictMode
    /\ deadlinePassed
    /\ missedTasks > 0
    /\ stakeBalance > 0
\* variation: the deadline is not part of the gate
canApplyPenalty_noDeadline ==
    /\ strictMode
    /\ missedTasks > 0
    /\ lastPenaltyDate # todayKey
    /\ stakeBalance > 0
canApplyPenalty ==
    /\ strictMode
    /\ deadlinePassed
    /\ missedTasks > 0
    /\ lastPenaltyDate # todayKey
    /\ stakeBalance > 0

-----------------------------------------------------------------------------
(* Inputs of the model.                                                    *)

Variants == {"proof", "vault"}
Offsets == {-5, 0, 5}
\* local times of day at which the page renders, and the instants they are
LocalClockTimes == {8 * HourMs, 22 * HourMs}
Instants == {d * DayMs + t - off * HourMs : d \in 1..MaxDay, t \in LocalClockTimes}

GoalInputs == {"clean my room"}
ProblemInputs == {"i overthink and delay starting"}
DraftInputs == {"read  PAPER!", "!!!", "   "}
DeadlineInputs == {"07:30", ""}
DepositInputs == {"10", "-5"}
RateInputs == {"0", "-3"}

\* persisted blobs the page may find when it starts
SavedBlobs ==
    { NoItem,
      Unparsable,
      Stored(JObject(
        [plannerGoal |-> JString("finish methods section draft"),
         actions |-> JArray(<<JObject([id |-> JString("a"), text |-> JString("Read paper"),
                                       completedDates |-> JArray(<<>>)])>>),
         stakeBalance |-> JNumber(1000),
         stakePerMiss |-> JNumber(1500),
         totalPenalties |-> JNumber(0),
         lastPenaltyDate |-> JString(EmptyDate)])),
      Stored(JObject(
        [actions |-> JArray(<<JObject([id |-> JString("a"), text |-> JString("Read paper"),
                                       completedDates |-> JArray(<<JString(1), JNumber(7)>>)]),
                              JObject([id |-> JString("b"), text |-> JString("read paper!"),
                                       completedDates |-> JNull]),
                              JObject([id |-> JNumber(3), text |-> JString("walk")]),
                              JNull>>),
         strictMode |-> JBoolean(TRUE),
         stakeBalance |-> JNumber(-500),
         stakePerMiss |-> JString("15"),
         totalPenalties |-> JNull])),
      Stored(JObject(
        [actions |-> JArray(<<JObject([id |-> JString("a"), text |-> JString("Read paper"),
                                       completedDates |-> JArray(<<JString(1)>>)]),
                              JObject([id |-> JString("b"), text |-> JString("walk"),
                                       completedDates |-> JArray(<<>>)])>>),
         proofLog |-> JString(" outlined chapter 2 "),
         rewards |-> JArray(<<JObject([id |-> JString("r1"), title |-> JString("coffee"),
                                       unlockStreak |-> JNumber(100),
                                       claimed |-> JBoolean(FALSE)]),
                              JObject([id |-> JString("r2"), title |-> JString("cinema"),
                                       unlockStreak |-> JNumber(240),
                                       claimed |-> JString("yes")]),
                              JObject([id |-> JString("r3"), title |-> JNull])>>),
         weeklyTarget |-> JNumber(250),
         deadlineTime |-> JString("07:30"),
         stakeBalance |-> JNumber(2000),
         stakePerMiss |-> JNumber(0),
         totalPenalties |-> JNumber(500),
         lastPenaltyDate |-> JString(1)])),
      Stored(JObject(
        [actions |-> JArray(<<JObject([id |-> JString("a"), text |-> JString("Read paper"),
                                       completedDates |-> JArray(<<>>)]),
                              JObject([id |-> JString("b"), text |-> JString("walk"),
                                       completedDates |-> JArray(<<>>)])>>),
         deadlineTime |-> JString("07:30"),
         stakeBalance |-> JNumber(2000),
         stakePerMiss |-> JNumber(500)])) }

\* persisted proof histories the page of part_000 may find when it starts
ProofBlobs ==
    { NoItem,
      Stored(JArray(<<JObject([id |-> JString("p1"), date |-> JString(HourMs),
                               note |-> JString("read two papers"),
                               streak |-> JNumber(200), progress |-> JNumber(5000)]),
                      JObject([id |-> JString("p0"), note |-> JString("set up zotero")]),
                      JObject([note |-> JString("no id")]),
                      JNull>>)) }

\* persisted items of any content: no item, texts that are no JSON, JSON
\* values of every type, objects with missing and wrongly typed fields
LoadBlobs ==
    SavedBlobs \cup
    { EmptyText,
      Stored(JNull),
      Stored(JNumber(4200)),
      Stored(JBoolean(TRUE)),
      Stored(JString("not an object")),
      Stored(JArray(<<JNumber(100)>>)),
      Stored(JObject([plannerGoal |-> JNumber(4200), strictMode |-> JString("yes")])),
      Stored(JObject([plannerProblem |-> JNull, deadlineTime |-> JBoolean(FALSE),
                      proofLog |-> JArray(<<>>)])),
      Stored(JObject([lastPenaltyDate |-> JNumber(20240101), actions |-> JString("none"),
                      rewards |-> JObject([id |-> JString("r1")]),
                      weeklyTarget |-> JString("10"),
                      stakeBalance |-> JBoolean(TRUE)])),
      Stored(JObject([plannerGoal |-> JString("finish methods section draft"),
                      plannerProblem |-> JString("i overthink and delay starting"),
                      proofLog |-> JString("outlined chapter 2"),
                      strictMode |-> JBoolean(FALSE),
                      deadlineTime |-> JString("18:00"),
                      weeklyTarget |-> JNumber(-300),
                      stakeBalance |-> JNumber(2550)])),
      Stored(JObject([rewards |-> JArray(<<
                         JObject([id |-> JString("r4"), title |-> JString("tea break"),
                                  unlockStreak |-> JNumber(40), claimed |-> JBoolean(FALSE)]),
                         JObject([id |-> JString("r5"), title |-> JString("long walk"),
                                  unlockStreak |-> JNumber(-200), claimed |-> JBoolean(FALSE)]),
                         JObject([id |-> JString("r6"), title |-> JString("new book"),
                                  unlockStreak |-> JString("5"), claimed |-> JBoolean(FALSE)]),
                         JObject([id |-> JString("r7"), title |-> JString("movie night"),
                                  unlockStreak |-> JNumber(260), claimed |-> JBoolean(TRUE)])>>)])) }

ProofLoadBlobs ==
    ProofBlobs \cup
    { EmptyText,
      Unparsable,
      Stored(JNull),
      Stored(JObject([id |-> JString("p1"), note |-> JString("not a list")])),
      Stored(JArray(<<JString("text"), JNumber(100),
                      JObject([id |-> JString("p2"), note |-> JString("ran analysis"),
                               date |-> JNumber(5), streak |-> JString("3"),
                               progress |-> JNull])>>)) }

\* candidate entries: well formed, with the key of another, with an empty
\* key, and malformed
Candidates ==
    { JObject([id |-> JString("a"), text |-> JString("Read paper"),
               completedDates |-> JArray(<<JString(1)>>)]),
      JObject([id |-> JString("b"), text |-> JString("read  PAPER!"),
               completedDates |-> JArray(<<>>)]),
      JObject([id |-> JString("c"), text |-> JString("walk"),
               completedDates |-> JArray(<<JString(2), JNumber(300)>>)]),
      JObject([id |-> JString("d"), text |-> JString("!!!")]),
      JObject([id |-> JNumber(300), text |-> JString("walk")]),
      JString("walk"),
      JNull }
RECURSIVE SeqsUpTo(_, _)
SeqsUpTo(S, n) ==
    IF n = 0 THEN {<<>>}
    ELSE SeqsUpTo(S, n - 1)
         \cup {Append(xs, x) : xs \in {ys \in SeqsUpTo(S, n - 1) : Len(ys) = n - 1}, x \in S}
CandidateLists == SeqsUpTo(Candidates, MaxCandidates)

\* goals and blockers the planner is given: none, several or one category's
\* phrases, in either case, and blank texts
PlannerGoals ==
    {"", "finish methods section draft", "NO IDEA where this goes, too much to do",
     "write the results section"}
PlannerProblems ==
    {"", "  ", "i overthink and delay starting", "worried for weeks",
     "weeks of redoing, it has to be perfect", "Too Much pressure",
     "i keep avoiding it"}

ProofLogInputs == {"wrote 200 words", "  "}
RewardTitleInputs == {"new pen"}
RewardStreakInputs == {"1.6", "x"}
WeeklyTargetInputs == {"7"}

\* deadline strings: valid HH:MM times, and strings that are no HH:MM time
DeadlineStrings ==
    {"21:00", "09:30", "00:00", "23:59",
     "", "21", "21:", ":", "ab:cd", "21:xx", "25:00"}
\* local times of day around the deadlines, to the millisecond
FineLocalTimes ==
    {0, 1, 9 * HourMs + 30 * MinuteMs, 9 * HourMs + 30 * MinuteMs + 1,
     20 * HourMs + 59 * MinuteMs, 21 * HourMs, 21 * HourMs + 1,
     21 * HourMs + MinuteMs, 23 * HourMs + 59 * MinuteMs, DayMs - 1}

\* action lists of at most two actions, completed on any days of 1..MaxStreakDay
RECURSIVE Ascending(_)
Ascending(S) ==
    IF S = {} THEN <<>>
    ELSE LET m == CHOOSE x \in S : \A y \in S : x <= y
         IN  <<m>> \o Ascending(S \ {m})
DateSeqs == {Ascending(S) : S \in SUBSET (1..MaxStreakDay)}
StreakLists ==
    {<<>>}
    \cup {<<ActionItem("a", "Read paper", d)>> : d \in DateSeqs}
    \cup {<<ActionItem("a", "Read paper", d), ActionItem("b", "walk", e)>> :
             <<d, e>> \in DateSeqs \X DateSeqs}

\* JSON.stringify(actions) followed by JSON.parse, as the save effect writes
\* and loadSavedState reads the list
storedActions(list) ==
    JArray([i \in 1..Len(list) |->
        JObject([id |-> JString(list[i].id), text |-> JString(list[i].text),
                 completedDates |->
                     JArray([k \in 1..Len(list[i].completedDates) |->
                                JString(list[i].completedDates[k])])])])

\* JSON.stringify of the reward list followed by JSON.parse
storedRewards(list) ==
    JArray([i \in 1..Len(list) |->
        JObject([id |-> JString(list[i].id), title |-> JString(list[i].title),
                 unlockStreak |-> JNumber(100 * list[i].unlockStreak),
                 claimed |-> JBoolean(list[i].claimed)])])

\* the object the first save effect hands to JSON.stringify
currentState ==
    LET common ==
          [plannerGoal |-> JString(plannerGoal),
           plannerProblem |-> JString(plannerProblem),
           actions |-> actions,
           proofLog |-> JString(proofLog),
           strictMode |-> JBoolean(strictMode),
           deadlineTime |-> JString(deadlineTime),
           stakeBalance |-> stakeBalance,
           stakePerMiss |-> stakePerMiss,
           totalPenalties |-> totalPenalties,
           lastPenaltyDate |-> JString(lastPenaltyDate)]
    IN  IF variant = "proof" THEN common
        ELSE common @@ [weeklyTarget |-> weeklyTarget, rewards |-> rewards]

\* JSON.stringify of a SavedState, as JSON.parse reads it back
encodeSavedState(state, page) ==
    LET common ==
          [plannerGoal |-> state.plannerGoal,
           plannerProblem |-> state.plannerProblem,
           actions |-> storedActions(state.actions),
           proofLog |-> state.proofLog,
           strictMode |-> state.strictMode,
           deadlineTime |-> state.deadlineTime,
           stakeBalance |-> JNumber(state.stakeBalance),
           stakePerMiss |-> JNumber(state.stakePerMiss),
           totalPenalties |-> JNumber(state.totalPenalties),
           lastPenaltyDate |-> state.lastPenaltyDate]
    IN  Stored(JObject(
            IF page = "proof" THEN common
            ELSE common @@ [weeklyTarget |-> JNumber(100 * state.weeklyTarget),
                            rewards |-> storedRewards(state.rewards)]))

\* the item the first save effect writes
encodeState == encodeSavedState(currentState, variant)

\* the item the second save effect writes: JSON.stringify(proofDb)
encodeProofDb ==
    Stored(JArray([i \in 1..Len(proofDb) |->
        JObject([id |-> JString(proofDb[i].id), date |-> JString(proofDb[i].date),
                 note |-> JString(proofDb[i].note),
                 streak |-> JNumber(proofDb[i].streak),
                 progress |-> JNumber(proofDb[i].progress)])]))

-----------------------------------------------------------------------------
(* Initial state: Home's useState initialisers.                            *)

\* the useState initialisers that read loadSavedState() and loadProofDb();
\* part_000 has no weeklyTarget and no rewards, page.tsx has no proofDb: the
\* variables keep the empty values there
Loaded(saved, raw) ==
    /\ initialState = loadSavedState(saved, variant)
    /\ plannerGoal = Untag(initialState.plannerGoal)
    /\ plannerProblem = Untag(initialState.plannerProblem)
    /\ actions = initialState.actions
    /\ proofLog = Untag(initialState.proofLog)
    /\ strictMode = Untag(initialState.strictMode)
    /\ deadlineTime = Untag(initialState.deadlineTime)
    /\ stakeBalance = initialState.stakeBalance
    /\ stakePerMiss = initialState.stakePerMiss
    /\ totalPenalties = initialState.totalPenalties
    /\ lastPenaltyDate = Untag(initialState.lastPenaltyDate)
    /\ weeklyTarget = IF variant = "vault" THEN initialState.weeklyTarget
                      ELSE defaultState_page.weeklyTarget
    /\ rewards = IF variant = "vault" THEN initialState.rewards ELSE <<>>
    /\ proofDb = IF variant = "proof" THEN loadProofDb(raw, now) ELSE <<>>

\* the useState initialisers that read nothing, and the empty history
Fresh ==
    /\ actionDraft = ""
    /\ depositDraft = "20"
    /\ rewardTitleDraft = ""
    /\ rewardStreakDraft = "3"
    /\ nextId = 0
    /\ ops = 0
    /\ lastOp = [op |-> "load", id |-> ""]
    /\ penaltyLog = <<>>
    /\ suggestLog = <<>>

\* the save effects of the first hydrated render have written the two items
Saved ==
    /\ storedState = encodeState
    /\ storedProofDb = IF variant = "proof" THEN encodeProofDb ELSE NoItem

Init ==
    /\ variant \in Variants
    /\ off \in Offsets
    /\ now = DayMs + 8 * HourMs - off * HourMs
    /\ \E saved \in SavedBlobs, raw \in ProofBlobs : Loaded(saved, raw)
    /\ Fresh
    /\ Saved

\* the page starts with any deadline string, at any time of day 1
InitDeadline ==
    /\ variant \in Variants
    /\ off \in Offsets
    /\ \E t \in FineLocalTimes : now = DayMs + t - off * HourMs
    /\ \E d \in DeadlineStrings :
           Loaded(Stored(JObject(
               [deadlineTime |-> JString(d),
                actions |-> storedActions(<<ActionItem("a", "Read paper", <<>>)>>),
                stakeBalance |-> JNumber(1000)])), NoItem)
    /\ Fresh
    /\ Saved

\* the page starts with any action list, at noon UTC of any day
InitStreak ==
    /\ variant \in Variants
    /\ off \in Offsets
    /\ \E d \in 1..MaxStreakDay : now = d * DayMs + 12 * HourMs
    /\ \E list \in StreakLists :
           Loaded(Stored(JObject([actions |-> storedActions(list)])), NoItem)
    /\ Fresh
    /\ Saved

-----------------------------------------------------------------------------
(* Handlers.  Every handler runs to completion; the render that follows    *)
(* reads the clock again (Rerender).                                       *)

\* crypto.randomUUID(): the k-th fresh id from here
NewId(k) == "uuid-" \o ToString(nextId + k)

Invoke(op, id) ==
    /\ ops < MaxOps
    /\ ops' = ops + 1
    /\ lastOp' = [op |-> op, id |-> id]
    /\ UNCHANGED <<variant, off, now, initialState>>

wallet == <<stakeBalance, stakePerMiss, totalPenalties, lastPenaltyDate, penaltyLog>>
planner == <<plannerGoal, plannerProblem>>
settings == <<strictMode, deadlineTime>>
proofState == <<proofLog, proofDb>>
vaultState == <<weeklyTarget, rewards, rewardTitleDraft, rewardStreakDraft>>

\* variation: only the first effect runs, the proof history is not rewritten
SaveEffect_stateOnly ==
    /\ storedState' = encodeState'
    /\ UNCHANGED storedProofDb

\* the two useEffect calls that run after a render whose state changed
SaveEffect ==
    /\ storedState' = encodeState'
    /\ storedProofDb' = IF variant = "proof" THEN encodeProofDb' ELSE storedProofDb

setPlannerGoal(value) ==
    /\ value # plannerGoal
    /\ Invoke("setPlannerGoal", "")
    /\ plannerGoal' = value
    /\ UNCHANGED <<plannerProblem, actions, actionDraft, settings, wallet, depositDraft, nextId>>
    /\ UNCHANGED <<proofState, vaultState, suggestLog>>
    /\ SaveEffect

setPlannerProblem(value) ==
    /\ value # plannerProblem
    /\ Invoke("setPlannerProblem", "")
    /\ plannerProblem' = value
    /\ UNCHANGED <<plannerGoal, actions, actionDraft, settings, wallet, depositDraft, nextId>>
    /\ UNCHANGED <<proofState, vaultState, suggestLog>>
    /\ SaveEffect

setActionDraft(value) ==
    /\ value # actionDraft
    /\ Invoke("setActionDraft", "")
    /\ actionDraft' = value
    /\ UNCHANGED <<planner, actions, settings, wallet, depositDraft, nextId>>
    /\ UNCHANGED <<proofState, vaultState, suggestLog>>
    /\ SaveEffect

setStrictMode(value) ==
    /\ value # strictMode
    /\ Invoke("setStrictMode", "")
    /\ strictMode' = value
    /\ UNCHANGED <<planner, actions, actionDraft, deadlineTime, wallet, depositDraft, nextId>>
    /\ UNCHANGED <<proofState, vaultState, suggestLog>>
    /\ SaveEffect

setDeadlineTime(value) ==
    /\ value # deadlineTime
    /\ Invoke("setDeadlineTime", "")
    /\ deadlineTime' = value
    /\ UNCHANGED <<planner, actions, actionDraft, strictMode, wallet, depositDraft, nextId>>
    /\ UNCHANGED <<proofState, vaultState, suggestLog>>
    /\ SaveEffect

setDepositDraft(value) ==
    /\ value # depositDraft
    /\ Invoke("setDepositDraft", "")
    /\ depositDraft' = value
    /\ UNCHANGED <<planner, actions, actionDraft, settings, wallet, nextId>>
    /\ UNCHANGED <<proofState, vaultState, suggestLog>>
    /\ SaveEffect

\* onValueChange of the "penalty per missed task" input
setStakePerMiss(value) ==
    /\ Invoke("setStakePerMiss", value)
    /\ stakePerMiss' = toPositiveNumber(value, 1500)
    /\ UNCHANGED <<planner, actions, actionDraft, settings, stakeBalance, totalPenalties,
                   lastPenaltyDate, penaltyLog, depositDraft, nextId>>
    /\ UNCHANGED <<proofState, vaultState, suggestLog>>
    /\ SaveEffect

\* part_000: the suggested tasks replace the list
suggestedItems(suggested) ==
    [k \in 1..Len(suggested) |-> ActionItem(NewId(k), suggested[k], <<>>)]

\* page.tsx: the for-loop that pushes the tasks whose lower-cased text is new
RECURSIVE PushNew(_, _, _, _, _)
PushNew(next, suggested, i, existing, used) ==
    IF i > Len(suggested) THEN next
    ELSE IF toLowerCase(suggested[i]) \in existing
    THEN PushNew(next, suggested, i + 1, existing, used)
    ELSE PushNew(Append(next, ActionItem(NewId(used + 1), suggested[i], <<>>)),
                 suggested, i + 1, existing, used + 1)

suggestActions ==
    /\ Invoke("suggestActions", "")
    /\ IF variant = "proof"
       THEN actions' = suggestedItems(buildSuggestedTasks(trim(plannerGoal), trim(plannerProblem)))
       ELSE actions' = PushNew(actions,
                               buildSuggestedTasks_page(trim(plannerGoal), trim(plannerProblem)),
                               1, {toLowerCase(actions[i].text) : i \in 1..Len(actions)}, 0)
    /\ nextId' = nextId + Cardinality({i \in 1..Len(actions') :
                                         \E k \in 1..6 : actions'[i].id = NewId(k)})
    /\ suggestLog' = Append(suggestLog,
           [goal |-> trim(plannerGoal), problem |-> trim(plannerProblem),
            tasks |-> IF variant = "proof"
                      THEN buildSuggestedTasks(trim(plannerGoal), trim(plannerProblem))
                      ELSE buildSuggestedTasks_page(trim(plannerGoal), trim(plannerProblem))])
    /\ UNCHANGED <<planner, actionDraft, settings, wallet, depositDraft>>
    /\ UNCHANGED <<proofState, vaultState>>
    /\ SaveEffect

addAction ==
    /\ Invoke("addAction", "")
    /\ LET text == trim(actionDraft)
           incomingKey == normalizeTaskText(text)
       IN  IF text = ""
           THEN UNCHANGED <<actions, actionDraft, nextId>>
           ELSE /\ actionDraft' = ""
                /\ IF /\ variant = "proof"
                      /\ \E i \in 1..Len(actions) :
                             normalizeTaskText(actions[i].text) = incomingKey
                   THEN UNCHANGED <<actions, nextId>>
                   ELSE /\ actions' = Append(actions, ActionItem(NewId(1), text, <<>>))
                        /\ nextId' = nextId + 1
    /\ UNCHANGED <<planner, settings, wallet, depositDraft>>
    /\ UNCHANGED <<proofState, vaultState, suggestLog>>
    /\ SaveEffect

\* variation: today's key is put in front ([todayKey, ...completedDates])
toggled_prepend(action) ==
    IF doneToday(action)
    THEN [action EXCEPT !.completedDates = SelectSeq(@, LAMBDA date : date # todayKey)]
    ELSE [action EXCEPT !.completedDates = <<todayKey>> \o @]

toggled(action) ==
    IF doneToday(action)
    THEN [action EXCEPT !.completedDates = SelectSeq(@, LAMBDA date : date # todayKey)]
    ELSE [action EXCEPT !.completedDates = Append(@, todayKey)]

toggleTodayComplete(id) ==
    /\ Invoke("toggleTodayComplete", id)
    /\ actions' = [i \in 1..Len(actions) |->
                      IF actions[i].id # id THEN actions[i] ELSE toggled(actions[i])]
    /\ UNCHANGED <<planner, actionDraft, settings, wallet, depositDraft, nextId>>
    /\ UNCHANGED <<proofState, vaultState, suggestLog>>
    /\ SaveEffect

removeAction(id) ==
    /\ Invoke("removeAction", id)
    /\ actions' = SelectSeq(actions, LAMBDA action : action.id # id)
    /\ UNCHANGED <<planner, actionDraft, settings, wallet, depositDraft, nextId>>
    /\ UNCHANGED <<proofState, vaultState, suggestLog>>
    /\ SaveEffect

depositStake ==
    /\ Invoke("depositStake", "")
    /\ LET amount == toPositiveNumber(depositDraft, 0)
       IN  IF amount <= 0
           THEN UNCHANGED <<stakeBalance, depositDraft>>
           ELSE /\ stakeBalance' = stakeBalance + amount
                /\ depositDraft' = "20"
    /\ UNCHANGED <<planner, actions, actionDraft, settings, stakePerMiss, totalPenalties,
                   lastPenaltyDate, penaltyLog, nextId>>
    /\ UNCHANGED <<proofState, vaultState, suggestLog>>
    /\ SaveEffect

\* history entry of one applyPenalty invocation
Logged(day, balance, total, balanceAfter, totalAfter) ==
    [day |-> day, changed |-> balanceAfter # balance \/ totalAfter # total]

\* variation: the penalty is charged but lastPenaltyDate is not stamped
applyPenalty_noStamp ==
    /\ Invoke("applyPenalty", "")
    /\ IF ~canApplyPenalty \/ penaltyToday <= 0
       THEN UNCHANGED <<stakeBalance, totalPenalties>>
       ELSE /\ stakeBalance' = Max(0, stakeBalance - penaltyToday)
            /\ totalPenalties' = totalPenalties + penaltyToday
    /\ UNCHANGED lastPenaltyDate
    /\ penaltyLog' = Append(penaltyLog, Logged(todayKey, stakeBalance, totalPenalties,
                                               stakeBalance', totalPenalties'))
    /\ UNCHANGED <<planner, actions, actionDraft, settings, stakePerMiss, depositDraft, nextId>>
    /\ UNCHANGED <<proofState, vaultState, suggestLog>>
    /\ SaveEffect

\* variation: the total grows by the uncapped penalty (rawPenalty for penaltyToday)
applyPenalty_rawTotal ==
    /\ Invoke("applyPenalty", "")
    /\ IF ~canApplyPenalty \/ penaltyToday <= 0
       THEN UNCHANGED <<stakeBalance, totalPenalties, lastPenaltyDate>>
       ELSE /\ stakeBalance' = Max(0, stakeBalance - penaltyToday)
            /\ totalPenalties' = totalPenalties + rawPenalty
            /\ lastPenaltyDate' = todayKey
    /\ penaltyLog' = Append(penaltyLog, Logged(todayKey, stakeBalance, totalPenalties,
                                               stakeBalance', totalPenalties'))
    /\ UNCHANGED <<planner, actions, actionDraft, settings, stakePerMiss, depositDraft, nextId>>
    /\ UNCHANGED <<proofState, vaultState, suggestLog>>
    /\ SaveEffect

applyPenalty ==
    /\ Invoke("applyPenalty", "")
    /\ IF ~canApplyPenalty \/ penaltyToday <= 0
       THEN UNCHANGED <<stakeBalance, totalPenalties, lastPenaltyDate>>
       ELSE /\ stakeBalance' = Max(0, stakeBalance - penaltyToday)
            /\ totalPenalties' = totalPenalties + penaltyToday
            /\ lastPenaltyDate' = todayKey
    /\ penaltyLog' = Append(penaltyLog, Logged(todayKey, stakeBalance, totalPenalties,
                                               stakeBalance', totalPenalties'))
    /\ UNCHANGED <<planner, actions, actionDraft, settings, stakePerMiss, depositDraft, nextId>>
    /\ UNCHANGED <<proofState, vaultState, suggestLog>>
    /\ SaveEffect

setProofLog(value) ==
    /\ value # proofLog
    /\ Invoke("setProofLog", "")
    /\ proofLog' = value
    /\ UNCHANGED <<planner, actions, actionDraft, settings, wallet, depositDraft, nextId,
                   proofDb, vaultState, suggestLog>>
    /\ SaveEffect

\* variation: the new entry goes to the end of the history
saveProofToDb_append ==
    /\ variant = "proof"
    /\ Invoke("saveProofToDb", "")
    /\ LET note == trim(proofLog)
       IN  IF note = ""
           THEN UNCHANGED <<proofLog, proofDb, nextId>>
           ELSE /\ proofDb' = Append(proofDb,
                                     ProofEntry(NewId(1), now, note, 100 * streak,
                                                100 * dailyProgress))
                /\ proofLog' = ""
                /\ nextId' = nextId + 1
    /\ UNCHANGED <<planner, actions, actionDraft, settings, wallet, depositDraft,
                   vaultState, suggestLog>>
    /\ SaveEffect

\* variation: the note is tested before it is trimmed (!proofLog for !note)
saveProofToDb_untrimmed ==
    /\ variant = "proof"
    /\ Invoke("saveProofToDb", "")
    /\ LET note == trim(proofLog)
       IN  IF proofLog = ""
           THEN UNCHANGED <<proofLog, proofDb, nextId>>
           ELSE /\ proofDb' = <<ProofEntry(NewId(1), now, note, 100 * streak,
                                           100 * dailyProgress)>> \o proofDb
                /\ proofLog' = ""
                /\ nextId' = nextId + 1
    /\ UNCHANGED <<planner, actions, actionDraft, settings, wallet, depositDraft,
                   vaultState, suggestLog>>
    /\ SaveEffect

\* part_000
saveProofToDb ==
    /\ variant = "proof"
    /\ Invoke("saveProofToDb", "")
    /\ LET note == trim(proofLog)
       IN  IF note = ""
           THEN UNCHANGED <<proofLog, proofDb, nextId>>
           ELSE /\ proofDb' = <<ProofEntry(NewId(1), now, note, 100 * streak,
                                           100 * dailyProgress)>> \o proofDb
                /\ proofLog' = ""
                /\ nextId' = nextId + 1
    /\ UNCHANGED <<planner, actions, actionDraft, settings, wallet, depositDraft,
                   vaultState, suggestLog>>
    /\ SaveEffect

\* page.tsx: onValueChange of the "weekly completions target" input
setWeeklyTarget(value) ==
    /\ variant = "vault"
    /\ Invoke("setWeeklyTarget", "")
    /\ weeklyTarget' = Max(1, MathRound(toPositiveNumber(value, 1000)))
    /\ UNCHANGED <<planner, actions, actionDraft, settings, wallet, depositDraft, nextId,
                   proofState, rewards, rewardTitleDraft, rewardStreakDraft, suggestLog>>
    /\ SaveEffect

setRewardTitleDraft(value) ==
    /\ variant = "vault"
    /\ value # rewardTitleDraft
    /\ Invoke("setRewardTitleDraft", "")
    /\ rewardTitleDraft' = value
    /\ UNCHANGED <<planner, actions, actionDraft, settings, wallet, depositDraft, nextId,
                   proofState, weeklyTarget, rewards, rewardStreakDraft, suggestLog>>
    /\ SaveEffect

setRewardStreakDraft(value) ==
    /\ variant = "vault"
    /\ value # rewardStreakDraft
    /\ Invoke("setRewardStreakDraft", "")
    /\ rewardStreakDraft' = value
    /\ UNCHANGED <<planner, actions, actionDraft, settings, wallet, depositDraft, nextId,
                   proofState, weeklyTarget, rewards, rewardTitleDraft, suggestLog>>
    /\ SaveEffect

\* page.tsx
addReward ==
    /\ variant = "vault"
    /\ Invoke("addReward", "")
    /\ LET title == trim(rewardTitleDraft)
           unlockStreak == Max(1, MathRound(toPositiveNumber(rewardStreakDraft, 300)))
       IN  IF title = ""
           THEN UNCHANGED <<rewards, rewardTitleDraft, rewardStreakDraft, nextId>>
           ELSE /\ rewards' = Append(rewards, RewardItem(NewId(1), title, unlockStreak, FALSE))
                /\ rewardTitleDraft' = ""
                /\ rewardStreakDraft' = "3"
                /\ nextId' = nextId + 1
    /\ UNCHANGED <<planner, actions, actionDraft, settings, wallet, depositDraft,
                   proofState, weeklyTarget, suggestLog>>
    /\ SaveEffect

\* variation: a reward is claimed whatever the streak
claimReward_anyStreak(id) ==
    /\ variant = "vault"
    /\ Invoke("claimReward", id)
    /\ rewards' = [i \in 1..Len(rewards) |->
                      IF rewards[i].id = id
                      THEN [rewards[i] EXCEPT !.claimed = TRUE]
                      ELSE rewards[i]]
    /\ UNCHANGED <<planner, actions, actionDraft, settings, wallet, depositDraft, nextId,
                   proofState, weeklyTarget, rewardTitleDraft, rewardStreakDraft, suggestLog>>
    /\ SaveEffect

\* page.tsx
claimReward(id) ==
    /\ variant = "vault"
    /\ Invoke("claimReward", id)
    /\ rewards' = [i \in 1..Len(rewards) |->
                      IF rewards[i].id = id /\ streak >= rewards[i].unlockStreak
                      THEN [rewards[i] EXCEPT !.claimed = TRUE]
                      ELSE rewards[i]]
    /\ UNCHANGED <<planner, actions, actionDraft, settings, wallet, depositDraft, nextId,
                   proofState, weeklyTarget, rewardTitleDraft, rewardStreakDraft, suggestLog>>
    /\ SaveEffect

\* every useState initialiser of Home runs on what localStorage holds
Hydrate ==
    /\ initialState' = loadSavedState(storedState, variant)
    /\ plannerGoal' = Untag(initialState'.plannerGoal)
    /\ plannerProblem' = Untag(initialState'.plannerProblem)
    /\ actions' = initialState'.actions
    /\ proofLog' = Untag(initialState'.proofLog)
    /\ strictMode' = Untag(initialState'.strictMode)
    /\ deadlineTime' = Untag(initialState'.deadlineTime)
    /\ stakeBalance' = initialState'.stakeBalance
    /\ stakePerMiss' = initialState'.stakePerMiss
    /\ totalPenalties' = initialState'.totalPenalties
    /\ lastPenaltyDate' = Untag(initialState'.lastPenaltyDate)
    /\ weeklyTarget' = IF variant = "vault" THEN initialState'.weeklyTarget
                       ELSE defaultState_page.weeklyTarget
    /\ rewards' = IF variant = "vault" THEN initialState'.rewards ELSE <<>>
    /\ proofDb' = IF variant = "proof" THEN loadProofDb(storedProofDb, now) ELSE <<>>
    /\ actionDraft' = ""
    /\ depositDraft' = "20"
    /\ rewardTitleDraft' = ""
    /\ rewardStreakDraft' = "3"

\* the page is opened again on what the save effects wrote, and the save
\* effects run after its first render
Reload ==
    /\ ops < MaxOps
    /\ ops' = ops + 1
    /\ lastOp' = [op |-> "reload", id |-> ""]
    /\ Hydrate
    /\ UNCHANGED <<variant, off, now, nextId, penaltyLog, suggestLog>>
    /\ SaveEffect

\* the first render in the browser, up to the return of loadSavedState() and
\* loadProofDb() and before any effect runs
Mount ==
    /\ lastOp.op = "server"
    /\ lastOp' = [op |-> "mount", id |-> "", found |-> <<storedState, storedProofDb>>]
    /\ Hydrate
    /\ storedState' = afterLoadSavedState(storedState)
    /\ storedProofDb' = IF variant = "proof" THEN afterLoadProofDb(storedProofDb)
                        ELSE storedProofDb
    /\ UNCHANGED <<variant, off, now, nextId, ops, penaltyLog, suggestLog>>

\* the save effects of the first hydrated render: the state is initialState
FirstSave ==
    /\ lastOp.op = "mount"
    /\ lastOp' = [op |-> "save", id |-> ""]
    /\ storedState' = encodeSavedState(initialState, variant)
    /\ storedProofDb' = IF variant = "proof" THEN encodeProofDb ELSE storedProofDb
    /\ UNCHANGED <<variant, off, now, planner, actions, actionDraft, settings, wallet,
                   depositDraft, proofState, vaultState, initialState, nextId, ops,
                   suggestLog>>

\* a later render of Home reads the clock again: getTodayKey(), isPastDeadline()
Rerender ==
    /\ \E t \in Instants : t > now /\ now' = t
    /\ UNCHANGED <<variant, off, planner, actions, actionDraft, settings, wallet,
                   depositDraft, nextId, ops, lastOp,
                   initialState, proofState, vaultState, suggestLog>>
    /\ SaveEffect

ListedIds == {actions[i].id : i \in 1..Len(actions)}

\* the handlers both pages have
NextShared ==
    \/ \E value \in GoalInputs : setPlannerGoal(value)
    \/ \E value \in ProblemInputs : setPlannerProblem(value)
    \/ \E value \in DraftInputs : setActionDraft(value)
    \/ \E value \in BOOLEAN : setStrictMode(value)
    \/ \E value \in DeadlineInputs : setDeadlineTime(value)
    \/ \E value \in DepositInputs : setDepositDraft(value)
    \/ \E value \in RateInputs : setStakePerMiss(value)
    \/ suggestActions
    \/ addAction
    \/ \E id \in ListedIds : toggleTodayComplete(id)
    \/ \E id \in ListedIds : removeAction(id)
    \/ depositStake
    \/ applyPenalty
    \/ \E value \in ProofLogInputs : setProofLog(value)
    \/ Reload
    \/ Rerender

\* the handler only part_000 has
NextProofOnly == saveProofToDb

\* the handlers only page.tsx has
NextVaultOnly ==
    \/ \E value \in WeeklyTargetInputs : setWeeklyTarget(value)
    \/ \E value \in RewardTitleInputs : setRewardTitleDraft(value)
    \/ \E value \in RewardStreakInputs : setRewardStreakDraft(value)
    \/ addReward
    \/ \E id \in {rewards[i].id : i \in 1..Len(rewards)} : claimReward(id)

Next ==
    \/ NextShared
    \/ NextProofOnly
    \/ NextVaultOnly

Spec == Init /\ [][Next]_vars

\* the deadline check, from every deadline string and time of day
NextDeadline ==
    \/ applyPenalty
    \/ Rerender

\* the start of the page on any persisted items: what the server rendered
\* (loadSavedState returns defaultState there), then the first browser render
InitLoad ==
    /\ variant \in Variants
    /\ off = 0
    /\ now = DayMs + 8 * HourMs
    /\ Loaded(NoItem, NoItem)
    /\ actionDraft = ""
    /\ depositDraft = "20"
    /\ rewardTitleDraft = ""
    /\ rewardStreakDraft = "3"
    /\ nextId = 0
    /\ ops = 0
    /\ lastOp = [op |-> "server", id |-> ""]
    /\ penaltyLog = <<>>
    /\ suggestLog = <<>>
    /\ storedState \in LoadBlobs
    /\ storedProofDb \in IF variant = "proof" THEN ProofLoadBlobs ELSE {NoItem}

NextLoad ==
    \/ Mount
    \/ FirstSave

SpecLoad == InitLoad /\ [][NextLoad]_vars

\* lists the vault page may hold before "suggest": nothing, or one task that
\* was added by hand and repeats a suggested task in another spelling
HandAddedLists ==
    {<<>>,
     <<ActionItem("h", "DEFINE one exact deliverable for today in one sentence", <<>>)>>,
     <<ActionItem("h", "Define one exact deliverable for today, in one sentence.", <<>>)>>,
     <<ActionItem("h", "Draft 200 words - before any editing!", <<>>)>>}

InitMerge ==
    /\ variant = "vault"
    /\ off \in Offsets
    /\ now = DayMs + 8 * HourMs - off * HourMs
    /\ \E goal \in PlannerGoals, problem \in PlannerProblems, list \in HandAddedLists :
           Loaded(Stored(JObject([plannerGoal |-> JString(goal),
                                  plannerProblem |-> JString(problem),
                                  actions |-> storedActions(list)])), NoItem)
    /\ Fresh
    /\ Saved

\* the task list of page.tsx: typed tasks and merged suggestions
NextMerge ==
    \/ \E value \in DraftInputs : setActionDraft(value)
    \/ addAction
    \/ suggestActions
    \/ \E id \in ListedIds : removeAction(id)

SpecMerge == InitMerge /\ [][NextMerge]_vars

\* completion dates the toggle has written by a given day: each toggle appends
\* the day key of its render, so the keys ascend and none is after that day
DatesBy(day) == {dates \in {<<>>, <<1>>, <<2>>, <<1, 2>>} :
                    \A k \in 1..Len(dates) : dates[k] <= day}

\* the page starts on any day with a list its own toggles have built
InitToggle ==
    /\ variant \in Variants
    /\ off \in Offsets
    /\ \E d \in 1..MaxDay : now = d * DayMs + 8 * HourMs - off * HourMs
    /\ \E da \in DatesBy(DateKeyOf(now)), db \in DatesBy(DateKeyOf(now)) :
           Loaded(Stored(JObject(
               [actions |-> storedActions(<<ActionItem("a", "Read paper", da),
                                            ActionItem("b", "walk", db)>>),
                stakeBalance |-> JNumber(1000)])), NoItem)
    /\ Fresh
    /\ Saved

\* the task list and what reads it
NextToggle ==
    \/ \E id \in ListedIds : toggleTodayComplete(id)
    \/ \E id \in ListedIds : removeAction(id)
    \/ \E value \in DraftInputs : setActionDraft(value)
    \/ addAction
    \/ applyPenalty
    \/ Reload
    \/ Rerender

SpecToggle == InitToggle /\ [][NextToggle]_vars

\* what can be typed into the two numeric inputs of the stake wallet
NumericInputs == {"", "  ", "abc", "-5", "0", "10", "12.346"}

\* the stake wallet alone, with every numeric input string
NextWallet ==
    \/ \E value \in NumericInputs : setDepositDraft(value)
    \/ \E value \in NumericInputs : setStakePerMiss(value)
    \/ depositStake

SpecWallet == Init /\ [][NextWallet]_vars

\* the start of the page on a state item whose action list is any candidate
\* list
InitNormalize ==
    /\ variant \in Variants
    /\ off = 0
    /\ now = DayMs + 8 * HourMs
    /\ Loaded(NoItem, NoItem)
    /\ actionDraft = ""
    /\ depositDraft = "20"
    /\ rewardTitleDraft = ""
    /\ rewardStreakDraft = "3"
    /\ nextId = 0
    /\ ops = 0
    /\ lastOp = [op |-> "server", id |-> ""]
    /\ penaltyLog = <<>>
    /\ suggestLog = <<>>
    /\ \E xs \in CandidateLists : storedState = Stored(JObject([actions |-> JArray(xs)]))
    /\ storedProofDb = NoItem

SpecNormalize == InitNormalize /\ [][NextLoad]_vars

\* the planner, from every goal and blocker
InitPlanner ==
    /\ variant \in Variants
    /\ off \in Offsets
    /\ now = DayMs + 8 * HourMs - off * HourMs
    /\ \E goal \in PlannerGoals, problem \in PlannerProblems :
           Loaded(Stored(JObject([plannerGoal |-> JString(goal),
                                  plannerProblem |-> JString(problem)])), NoItem)
    /\ Fresh
    /\ Saved

NextPlanner ==
    \/ suggestActions
    \/ \E id \in ListedIds : removeAction(id)
    \/ Rerender

SpecPlanner == InitPlanner /\ [][NextPlanner]_vars

\* the page of part_000 alone
InitProofPage == Init /\ variant = "proof"
NextProofPage ==
    \/ NextShared
    \/ NextProofOnly
SpecProofPage == InitProofPage /\ [][NextProofPage]_vars

\* the page of page.tsx alone
InitVaultPage == Init /\ variant = "vault"
NextVaultPage ==
    \/ NextShared
    \/ NextVaultOnly
SpecVaultPage == InitVaultPage /\ [][NextVaultPage]_vars

SpecDeadline == InitDeadline /\ [][NextDeadline]_vars

\* the streak, from every action list and day
NextStreak ==
    \/ \E id \in ListedIds : toggleTodayComplete(id)
    \/ Rerender

SpecStreak == InitStreak /\ [][NextStreak]_vars

-----------------------------------------------------------------------------
(* Properties.  The quantities the claims speak of are written out here    *)
(* from the claims' words, independently of the definitions above.         *)

\* this step is an invocation of the handler `op`
Step(op) == ops' = ops + 1 /\ lastOp'.op = op

\* the number of actions with no completion dated todayKey
MissedToday ==
    Cardinality({i \in 1..Len(actions) :
        \A k \in 1..Len(actions[i].completedDates) :
            actions[i].completedDates[k] # DateKeyOf(now)})

\* min(stakeBalance, missedTasks * stakePerMiss)
CappedPenalty ==
    IF stakeBalance <= MissedToday * stakePerMiss
    THEN stakeBalance ELSE MissedToday * stakePerMiss

\* a valid HH:MM time: two digits, a colon, two digits, 00..23 and 00..59
ValidHHMM(d) ==
    /\ Len(d) = 5
    /\ CharAt(d, 3) = ":"
    /\ \A i \in {1, 2, 4, 5} : CharAt(d, i) \in DigitChars
    /\ 10 * DigitMap[CharAt(d, 1)] + DigitMap[CharAt(d, 2)] <= 23
    /\ 10 * DigitMap[CharAt(d, 4)] + DigitMap[CharAt(d, 5)] <= 59

\* milliseconds from local midnight to the deadline of a valid HH:MM time
DeadlineOffsetMs(d) ==
    (10 * DigitMap[CharAt(d, 1)] + DigitMap[CharAt(d, 2)]) * HourMs
    + (10 * DigitMap[CharAt(d, 4)] + DigitMap[CharAt(d, 5)]) * MinuteMs

\* strictMode AND deadlinePassed AND missedTasks > 0 AND lastPenaltyDate !=
\* todayKey AND stakeBalance > 0
GateOpen ==
    /\ strictMode
    /\ deadlinePassed
    /\ MissedToday > 0
    /\ lastPenaltyDate # DateKeyOf(now)
    /\ stakeBalance > 0

\* C1: within one todayKey, at most one applyPenalty invocation changes
\* stakeBalance or totalPenalties; every later invocation of that day changes
\* neither
C1_SinglePenaltyPerDay ==
    \A i, j \in 1..Len(penaltyLog) :
        (i < j /\ penaltyLog[i].day = penaltyLog[j].day /\ penaltyLog[i].changed)
            => ~penaltyLog[j].changed

\* applyPenalty was invoked twice on one day: the first changed the wallet, the
\* second found everything but the date stamp in favour of a penalty
C1_Witness ==
    /\ Len(penaltyLog) = 2
    /\ penaltyLog[1].day = penaltyLog[2].day
    /\ penaltyLog[1].changed
    /\ ~penaltyLog[2].changed
    /\ strictMode /\ deadlinePassed /\ MissedToday > 0 /\ stakeBalance > 0
    /\ stakePerMiss > 0

\* C2: stakeBalance, stakePerMiss and totalPenalties are never negative, from
\* the state loaded from any blob onwards
C2_NonNegativeWallet ==
    /\ stakeBalance >= 0
    /\ stakePerMiss >= 0
    /\ totalPenalties >= 0

\* a penalty has emptied a wallet that a deposit had filled
C2_Witness ==
    /\ lastOp.op = "applyPenalty"
    /\ Len(penaltyLog) > 0 /\ penaltyLog[Len(penaltyLog)].changed
    /\ stakeBalance = 0
    /\ totalPenalties > 0

\* C3: penaltyToday = min(stakeBalance, missedTasks * stakePerMiss), so
\* 0 <= penaltyToday <= stakeBalance; 10 dollars, 15 per miss, 1 miss give 10
C3_PenaltyBound ==
    /\ missedTasks = MissedToday
    /\ penaltyToday = CappedPenalty
    /\ 0 <= penaltyToday
    /\ penaltyToday <= stakeBalance
    /\ (stakeBalance = 1000 /\ stakePerMiss = 1500 /\ MissedToday = 1)
           => penaltyToday = 1000

\* the scenario: a balance of 10, a rate of 15, one missed task
C3_Witness ==
    /\ stakeBalance = 1000
    /\ stakePerMiss = 1500
    /\ missedTasks = 1
    /\ penaltyToday = 1000

\* C4: an applyPenalty invocation with any conjunct of the gate false leaves
\* stakeBalance, totalPenalties and lastPenaltyDate unchanged, and no step
\* other than an applyPenalty invocation with the gate open lowers stakeBalance
C4_GatedPenalty ==
    [][/\ (Step("applyPenalty") /\ ~GateOpen)
            => UNCHANGED <<stakeBalance, totalPenalties, lastPenaltyDate>>
       /\ (stakeBalance' < stakeBalance)
            => (Step("applyPenalty") /\ GateOpen)]_vars

\* applyPenalty was invoked before the deadline, with everything else in
\* favour of a penalty, and changed nothing
C4_Witness ==
    /\ lastOp.op = "applyPenalty"
    /\ ~penaltyLog[Len(penaltyLog)].changed
    /\ ~deadlinePassed
    /\ strictMode /\ MissedToday > 0 /\ stakeBalance > 0 /\ stakePerMiss > 0
    /\ lastPenaltyDate # todayKey

\* C5 as claimed: whenever the gate is open, applyPenalty subtracts
\* penaltyToday (floored at 0), adds it to totalPenalties and stamps
\* lastPenaltyDate, also when stakePerMiss = 0
C5_Original ==
    [][(Step("applyPenalty") /\ GateOpen)
          => /\ stakeBalance' = Max(0, stakeBalance - CappedPenalty)
             /\ totalPenalties' = totalPenalties + CappedPenalty
             /\ lastPenaltyDate' = DateKeyOf(now)]_vars

\* C5 as amended: with the gate open and penaltyToday > 0, applyPenalty
\* subtracts penaltyToday, adds it to totalPenalties and stamps lastPenaltyDate;
\* with the gate open and penaltyToday = 0 it changes none of the three
C5_ApplyEffect ==
    [][(Step("applyPenalty") /\ GateOpen)
          => IF CappedPenalty > 0
             THEN /\ stakeBalance' = Max(0, stakeBalance - CappedPenalty)
                  /\ totalPenalties' = totalPenalties + CappedPenalty
                  /\ lastPenaltyDate' = DateKeyOf(now)
             ELSE UNCHANGED <<stakeBalance, totalPenalties, lastPenaltyDate>>]_vars

\* a penalty smaller than the balance has just been applied and stamped
C5_Witness ==
    /\ lastOp.op = "applyPenalty"
    /\ penaltyLog[Len(penaltyLog)].changed
    /\ lastPenaltyDate = todayKey
    /\ stakeBalance > 0
    /\ totalPenalties > 0

\* the k with d, d-1, ..., d-k+1 in the set of days and d-k not in it
RunLength(days, d) ==
    CHOOSE k \in 0..(MaxStreakDay + MaxDay + 2) :
        /\ \A j \in 0..(k - 1) : (d - j) \in days
        /\ (d - k) \notin days

\* the days on which some action (not every action) was completed
AnyCompletionDays ==
    {x \in 0..(MaxStreakDay + MaxDay + 2) :
        \E i \in 1..Len(actions) : \E k \in 1..Len(actions[i].completedDates) :
            actions[i].completedDates[k] = x}

\* C6 as claimed: the streak is the length of the run of consecutive days with
\* a completion that ends at todayKey (0 when todayKey has none)
C6_Original == streak = RunLength(AnyCompletionDays, DateKeyOf(now))

\* C7: for a valid HH:MM deadline, deadlinePassed is true exactly when the
\* local time of day is strictly after it: for "21:00", false at 20:59 and at
\* 21:00:00.000, true at 21:01
C7_StrictlyAfterDeadline ==
    ValidHHMM(deadlineTime)
        => /\ deadlinePassed <=> (LocalMsOfDay(now) > DeadlineOffsetMs(deadlineTime))
           /\ (deadlineTime = "21:00" /\ LocalMsOfDay(now) = 20 * HourMs + 59 * MinuteMs)
                  => ~deadlinePassed
           /\ (deadlineTime = "21:00" /\ LocalMsOfDay(now) = 21 * HourMs)
                  => ~deadlinePassed
           /\ (deadlineTime = "21:00" /\ LocalMsOfDay(now) = 21 * HourMs + MinuteMs)
                  => deadlinePassed

\* a penalty was applied one millisecond after the deadline "21:00"
C7_Witness ==
    /\ deadlineTime = "21:00"
    /\ LocalMsOfDay(now) = 21 * HourMs + 1
    /\ deadlinePassed
    /\ lastOp.op = "applyPenalty"
    /\ penaltyLog[Len(penaltyLog)].changed

\* C8 as claimed: a deadline string that is no valid HH:MM time is never
\* passed, so the gate is closed
C8_Original ==
    ~ValidHHMM(deadlineTime) => (~deadlinePassed /\ ~canApplyPenalty)

\* C9 as claimed: the normalized text keys of the list are non-empty and
\* pairwise distinct
C9_Original ==
    /\ \A i \in 1..Len(actions) : normalizeTaskText(actions[i].text) # ""
    /\ \A i, j \in 1..Len(actions) :
           i # j => normalizeTaskText(actions[i].text) # normalizeTaskText(actions[j].text)

\* C10 as claimed: an action stays in the list, with its id, text and
\* completedDates, through every step that is not removeAction or
\* toggleTodayComplete invoked with its id
C10_Original ==
    [][\A i \in 1..Len(actions) :
          \/ /\ Step("removeAction") \/ Step("toggleTodayComplete")
             /\ lastOp'.id = actions[i].id
          \/ \E j \in 1..Len(actions') : actions'[j] = actions[i]]_vars

-----------------------------------------------------------------------------
(* Properties of the codec.                                                *)

\* the first browser render has returned from loadSavedState and loadProofDb
Mounted == lastOp.op \in {"mount", "save"}

\* every field of a SavedState has its declared type
DeclaredTypes(state, page) ==
    /\ state.plannerGoal.t = "string"
    /\ state.plannerProblem.t = "string"
    /\ state.proofLog.t = "string"
    /\ state.strictMode.t = "boolean"
    /\ state.deadlineTime.t = "string"
    /\ state.lastPenaltyDate.t = "string"
    /\ state.stakeBalance >= 0
    /\ state.stakePerMiss >= 0
    /\ state.totalPenalties >= 0
    /\ \A i \in 1..Len(state.actions) :
           DOMAIN state.actions[i] = {"id", "text", "completedDates"}
    /\ page = "vault" =>
           /\ state.weeklyTarget >= 0
           /\ \A i \in 1..Len(state.rewards) :
                  DOMAIN state.rewards[i] = {"id", "title", "unlockStreak", "claimed"}

\* C11 as claimed: whatever the persisted item holds, loadSavedState returns
\* a SavedState whose every field has its declared type, a missing or wrongly
\* typed field being replaced by its default
C11_Original == Mounted => DeclaredTypes(initialState, variant)

\* the default state of the page
Defaults ==
    LET common ==
          [plannerGoal |-> JString(""), plannerProblem |-> JString(""),
           actions |-> <<>>, proofLog |-> JString(""), strictMode |-> JBoolean(TRUE),
           deadlineTime |-> JString("21:00"), stakeBalance |-> 0,
           stakePerMiss |-> 1500, totalPenalties |-> 0,
           lastPenaltyDate |-> JString(EmptyDate)]
    IN  IF variant = "proof" THEN common
        ELSE common @@ [weeklyTarget |-> 10, rewards |-> <<>>]

\* the item holds a text that JSON.parse rejects
NotJson(item) == item.present /\ (item.empty \/ ~item.parses)
\* the item holds a non-empty text that JSON.parse rejects
CorruptText(item) == item.present /\ ~item.empty /\ ~item.parses
\* this step is the first browser render
MountStep == lastOp.op = "server" /\ lastOp'.op = "mount"

\* C12 as claimed: when the state item is no parseable JSON the page starts
\* from the default state and the item is removed; when the proof item is no
\* parseable JSON the history starts empty and the item is removed
C12_Original ==
    [][MountStep =>
          /\ NotJson(storedState)
                => (initialState' = Defaults /\ ~storedState'.present)
          /\ (variant = "proof" /\ NotJson(storedProofDb))
                => (proofDb' = <<>> /\ ~storedProofDb'.present)]_vars

\* C12 as amended: a non-empty text that is no JSON gives the default state
\* (the empty history) and is removed; an empty text gives the same result
\* and stays in storage
C12_CorruptionRecovery ==
    [][MountStep =>
          /\ NotJson(storedState) => initialState' = Defaults
          /\ CorruptText(storedState) => ~storedState'.present
          /\ (storedState.present /\ storedState.empty) => storedState' = storedState
          /\ variant = "proof" =>
                /\ NotJson(storedProofDb) => proofDb' = <<>>
                /\ CorruptText(storedProofDb) => ~storedProofDb'.present
                /\ (storedProofDb.present /\ storedProofDb.empty)
                      => storedProofDb' = storedProofDb]_vars

\* the page of part_000 has started on two corrupt items: default state,
\* empty history, both items gone
C12_Witness ==
    /\ lastOp.op = "mount"
    /\ variant = "proof"
    /\ CorruptText(lastOp.found[1])
    /\ CorruptText(lastOp.found[2])
    /\ initialState = Defaults
    /\ proofDb = <<>>
    /\ ~storedState.present
    /\ ~storedProofDb.present

\* C13 as claimed: decoding the item the save effect wrote for the current
\* state gives the current state again
C13_Original == loadSavedState(storedState, variant) = currentState

-----------------------------------------------------------------------------
(* Properties of the task normalizer.                                      *)

\* the candidate list the page found in the state item, and the normalizer
\* of the page that runs
CandidatesFound == lastOp.found[1].value.v.actions
NormalizeOf(value) ==
    IF variant = "proof" THEN normalizeActions(value) ELSE normalizeActions_page(value)

\* C14: normalizing the normalized list again gives the normalized list
C14_Idempotent ==
    lastOp.op = "mount" =>
        LET once == NormalizeOf(CandidatesFound)
        IN  /\ actions = once
            /\ NormalizeOf(storedActions(once)) = once

\* three candidates, one malformed and one with the key of an earlier one,
\* were normalized to the two that remain
C14_Witness ==
    /\ lastOp.op = "mount"
    /\ variant = "proof"
    /\ Len(CandidatesFound.v) = 3
    /\ Len(actions) = 2
    /\ actions[1].id = "a"
    /\ actions[2].id = "c"

\* a candidate is well formed: an object with a string id and a string text
WellFormed(c) ==
    /\ c.t = "object"
    /\ "id" \in DOMAIN c.v /\ c.v.id.t = "string"
    /\ "text" \in DOMAIN c.v /\ c.v.text.t = "string"
\* the key of a well-formed candidate
KeyOf(c) == normalizeTaskText(c.v.text.v)
\* the action a well-formed candidate stands for
ItemOf(c) ==
    [id |-> c.v.id.v, text |-> c.v.text.v,
     completedDates |->
        IF "completedDates" \in DOMAIN c.v /\ c.v.completedDates.t = "array"
        THEN LET dates == SelectSeq(c.v.completedDates.v, LAMBDA e : e.t = "string")
             IN  [k \in 1..Len(dates) |-> dates[k].v]
        ELSE <<>>]
\* the sub-sequence of the well-formed candidates whose key is non-empty and
\* is the key of no earlier well-formed candidate
FirstOccurrences(xs) ==
    LET kept == SelectSeq([i \in 1..Len(xs) |-> i],
                    LAMBDA i : /\ WellFormed(xs[i])
                               /\ KeyOf(xs[i]) # ""
                               /\ \A j \in 1..(i - 1) :
                                      WellFormed(xs[j]) => KeyOf(xs[j]) # KeyOf(xs[i]))
    IN  [k \in 1..Len(kept) |-> ItemOf(xs[kept[k]])]

\* C15 as claimed: the normalized list is the sub-sequence of the well-formed
\* candidates, in order, without the entries whose key is empty or the key
\* of an earlier kept entry
C15_Original ==
    lastOp.op = "mount" => actions = FirstOccurrences(CandidatesFound.v)

-----------------------------------------------------------------------------
(* Properties of the classifier and of the suggestion engine.              *)

\* the categories in their order, and the phrases of each
CategoryOrder == <<"ambiguity", "overwhelm", "anxiety", "inertia", "perfectionism">>
PhrasesOf(category) ==
    CASE category = "ambiguity" ->
           {"don't know where to start", "not sure how", "don't know what to do",
            "where do i begin", "no idea", "confused about", "what should i"}
      [] category = "overwhelm" ->
           {"too much", "so many things", "everything", "a lot to do", "piling up",
            "can't keep up", "buried", "behind on"}
      [] category = "anxiety" ->
           {"stressing", "stressed", "worried", "scared", "nervous", "afraid",
            "matters a lot", "important", "can't mess up", "pressure"}
      [] category = "inertia" ->
           {"keep putting off", "procrastinat", "avoiding", "haven't started",
            "been meaning to", "weeks", "months", "forever"}
      [] category = "perfectionism" ->
           {"has to be perfect", "not good enough", "redoing", "can't finish",
            "keep starting over", "nothing feels right"}
\* a phrase occurs in a text
Occurs(phrase, text) ==
    \E i \in 1..(Len(text) - Len(phrase) + 1) :
        SubSeq(text, i, i + Len(phrase) - 1) = phrase
\* the categories one of whose phrases occurs in the text
Matching(text) ==
    {k \in 1..Len(CategoryOrder) : \E phrase \in PhrasesOf(CategoryOrder[k]) : Occurs(phrase, text)}
\* the first category that matches, or default
FirstCategory(text) ==
    IF Matching(text) = {} THEN "default"
    ELSE CategoryOrder[CHOOSE k \in Matching(text) : \A j \in Matching(text) : k <= j]

\* what the suggestion engine hands to the classifier: the trimmed goal and
\* blocker, or its stand-in texts when they are blank
GoalGiven == IF trim(plannerGoal) = "" THEN "your main phd goal" ELSE trim(plannerGoal)
BlockerGiven ==
    IF trim(plannerProblem) = "" THEN "starting feels hard" ELSE trim(plannerProblem)

\* C16: the classifier returns the first category, in the order ambiguity,
\* overwhelm, anxiety, inertia, perfectionism, one of whose phrases occurs in
\* the lower-cased text "goal blocker", and default when none occurs
C16_FirstMatchWins ==
    detectResistance(GoalGiven, BlockerGiven)
        = FirstCategory(toLowerCase(GoalGiven \o " " \o BlockerGiven))

\* the tasks were suggested for a blocker with phrases of anxiety and of
\* inertia, and the list holds the task of anxiety
C16_Witness ==
    /\ variant = "proof"
    /\ lastOp.op = "suggestActions"
    /\ plannerProblem = "worried for weeks"
    /\ Matching(toLowerCase(GoalGiven \o " " \o BlockerGiven)) = {3, 4}
    /\ \E i \in 1..Len(actions) : Occurs("your best guess", actions[i].text)

\* C17 as claimed: for the goal "finish methods section draft" and the
\* blocker "i overthink and delay starting" the classifier returns inertia,
\* and the suggested list holds a 3-5 minute desk-clearing task and the
\* 10-minute "add exactly one sentence" task
C17_Original ==
    (/\ variant = "proof"
     /\ plannerGoal = "finish methods section draft"
     /\ plannerProblem = "i overthink and delay starting")
    => /\ detectResistance(plannerGoal, plannerProblem) = "inertia"
       /\ lastOp.op = "suggestActions" =>
             /\ Occurs("Clear your desk", actions[1].text)
             /\ \E i \in 1..Len(actions) :
                    /\ Occurs("10-minute", actions[i].text)
                    /\ Occurs("add exactly one sentence", actions[i].text)

\* C18: every call of the suggestion engine returns between 1 and 6 tasks,
\* and two calls with the same two inputs return the same list
C18_BoundedDeterministic ==
    /\ \A k \in 1..Len(suggestLog) :
           Len(suggestLog[k].tasks) >= 1 /\ Len(suggestLog[k].tasks) <= 6
    /\ \A j, k \in 1..Len(suggestLog) :
           (suggestLog[j].goal = suggestLog[k].goal
                /\ suggestLog[j].problem = suggestLog[k].problem)
             => suggestLog[j].tasks = suggestLog[k].tasks

\* the engine was called twice with two empty strings, the second time with
\* the first call's tasks listed, and returned the same six tasks
C18_Witness ==
    /\ Len(suggestLog) = 2
    /\ suggestLog[1].goal = "" /\ suggestLog[1].problem = ""
    /\ suggestLog[2].goal = "" /\ suggestLog[2].problem = ""
    /\ Len(suggestLog[2].tasks) = 6
    /\ suggestLog[1].tasks = suggestLog[2].tasks

-----------------------------------------------------------------------------
(* Properties of the proof history and of the reward vault.                *)

\* C19: saveProofToDb with a non-blank note puts one new entry, with the
\* trimmed note and the streak and dailyProgress of that moment, in front of
\* the history, the earlier entries following unchanged and in order; every
\* other step leaves the history as it is
C19_AppendOnlyNewestFirst ==
    [][IF Step("saveProofToDb") /\ trim(proofLog) # ""
       THEN /\ Len(proofDb') = Len(proofDb) + 1
            /\ proofDb'[1].note = trim(proofLog)
            /\ proofDb'[1].streak = 100 * streak
            /\ proofDb'[1].progress = 100 * dailyProgress
            /\ \A k \in 1..Len(proofDb) : proofDb'[k + 1] = proofDb[k]
       ELSE proofDb' = proofDb]_vars

\* a note was saved on top of a loaded history of two entries, with one of
\* two actions done that day
C19_Witness ==
    /\ lastOp.op = "saveProofToDb"
    /\ Len(proofDb) = 3
    /\ proofDb[1].note = "outlined chapter 2"
    /\ proofDb[1].progress = 5000
    /\ proofDb[1].streak = 100
    /\ proofDb[2].id = "p1"
    /\ proofDb[3].id = "p0"
    /\ proofLog = ""

\* C20: a reward that is claimed stays in the list and stays claimed through
\* every step, a reload included, and a reward turns from unclaimed to
\* claimed only in a claimReward step for its id, taken while the streak is
\* at least its unlockStreak
C20_ClaimedIsMonotonic ==
    [][\A i \in 1..Len(rewards) :
          /\ rewards[i].claimed
                => \E j \in 1..Len(rewards') :
                       rewards'[j].id = rewards[i].id /\ rewards'[j].claimed
          /\ \A j \in 1..Len(rewards') :
                (rewards'[j].id = rewards[i].id /\ ~rewards[i].claimed
                     /\ rewards'[j].claimed)
                  => /\ Step("claimReward")
                     /\ lastOp'.id = rewards[i].id
                     /\ streak >= rewards[i].unlockStreak]_vars

\* the reward loaded unclaimed was claimed, the action was then unticked, and
\* the reward is still claimed with the streak below its unlockStreak
C20_Witness ==
    /\ variant = "vault"
    /\ lastOp.op = "toggleTodayComplete"
    /\ Len(rewards) >= 1
    /\ rewards[1].id = "r1"
    /\ rewards[1].claimed
    /\ streak < rewards[1].unlockStreak

-----------------------------------------------------------------------------
(* Properties of the reward thresholds and of the numeric inputs.          *)

\* a reward whose threshold is kept as it was stored: positive and whole
StoredThresholdOf(id) ==
    IF storedState.present /\ ~storedState.empty /\ storedState.parses
       /\ typeof(storedState.value) = "object"
       /\ isArray(Get(storedState.value, "rewards"))
    THEN LET list == Get(storedState.value, "rewards").v
         IN  {list[i].v.unlockStreak.v : i \in {k \in 1..Len(list) :
                  /\ typeof(list[k]) = "object"
                  /\ Get(list[k], "id") = JString(id)
                  /\ typeof(Get(list[k], "unlockStreak")) = "number"}}
    ELSE {}

C21_Counterexample ==
    /\ variant = "vault"
    /\ lastOp.op = "mount"
    /\ \E i \in 1..Len(rewards) :
          /\ rewards[i].id = "r4"
          /\ rewards[i].unlockStreak = 0
          /\ 40 \in StoredThresholdOf("r4")

\* a string of white space only, the empty string included
Blank(s) == \A i \in 1..Len(s) : IsWhiteSpace(CharAt(s, i))

\* the number the claim gives for a numeric input string, in cents
ClaimedNumber(value, fallback) ==
    LET parsed == NumberOf(value)
    IN  IF Blank(value) \/ parsed.nan \/ parsed.milli < 0 THEN fallback
        ELSE RoundToCents(parsed.milli)

\* C22: a numeric input string that is blank, not a number, not finite or
\* negative yields the caller's fallback (15.00 for the rate, 0 for a
\* deposit); a deposit whose amount is <= 0 leaves stakeBalance unchanged and
\* a valid deposit adds exactly the amount rounded to two decimals.
C22_Original ==
    [][ /\ Step("setStakePerMiss") => stakePerMiss' = ClaimedNumber(lastOp'.id, 1500)
        /\ Step("depositStake") =>
              LET amount == ClaimedNumber(depositDraft, 0)
              IN  stakeBalance' = IF amount <= 0 THEN stakeBalance
                                  ELSE stakeBalance + amount ]_vars

\* the rate input was cleared and the rate is 0, not the fallback 15.00
C22_Counterexample ==
    /\ lastOp.op = "setStakePerMiss"
    /\ Blank(lastOp.id)
    /\ stakePerMiss = 0

\* what the code does with the same strings: Number("") is 0
C22_BlankIsZero ==
    [][ /\ Step("setStakePerMiss") =>
              stakePerMiss' = IF Blank(lastOp'.id) THEN 0
                              ELSE ClaimedNumber(lastOp'.id, 1500)
        /\ Step("depositStake") =>
              LET amount == ClaimedNumber(depositDraft, 0)
              IN  stakeBalance' = IF amount <= 0 THEN stakeBalance
                                  ELSE stakeBalance + amount ]_vars

-----------------------------------------------------------------------------
(* Properties of the derived values, of persistence and of the wallet.     *)

\* the number of actions with a completion dated todayKey
CompletedToday == Len(actions) - MissedToday

\* the whole numbers nearest to 100 * done / total, the upper one at a tie
NearestPercent(done, total) ==
    {p \in 0..100 : 2 * total * p - total <= 200 * done
                    /\ 200 * done < 2 * total * p + total}

\* C23: dailyProgress is a whole number in 0..100, equal to
\* round(100 * completedToday / number of actions) when the list is not
\* empty and to 0 when it is empty; with an empty list the streak is 0 too.
C23_DailyProgress ==
    /\ dailyProgress \in 0..100
    /\ IF Len(actions) = 0
       THEN dailyProgress = 0 /\ streak = 0
       ELSE NearestPercent(CompletedToday, Len(actions)) = {dailyProgress}

\* one of six listed tasks was just completed: 16.67 per cent, shown as 17
C23_Witness ==
    /\ lastOp.op = "toggleTodayComplete"
    /\ Len(actions) = 6
    /\ CompletedToday = 1
    /\ dailyProgress = 17

\* the fields the save effects write
persisted ==
    <<plannerGoal, plannerProblem, actions, proofLog, strictMode, deadlineTime,
      stakeBalance, stakePerMiss, totalPenalties, lastPenaltyDate,
      weeklyTarget, rewards, proofDb>>

\* the primary item holds the value of every persisted field of the state
BlobShows ==
    /\ storedState.present /\ ~storedState.empty /\ storedState.parses
    /\ typeof(storedState.value) = "object"
    /\ LET o == storedState.value.v
       IN  /\ o.plannerGoal = JString(plannerGoal)
           /\ o.plannerProblem = JString(plannerProblem)
           /\ o.proofLog = JString(proofLog)
           /\ o.strictMode = JBoolean(strictMode)
           /\ o.deadlineTime = JString(deadlineTime)
           /\ o.lastPenaltyDate = JString(lastPenaltyDate)
           /\ o.stakeBalance = JNumber(stakeBalance)
           /\ o.stakePerMiss = JNumber(stakePerMiss)
           /\ o.totalPenalties = JNumber(totalPenalties)
           /\ Len(o.actions.v) = Len(actions)
           /\ \A i \in 1..Len(actions) :
                 /\ o.actions.v[i].v.id = JString(actions[i].id)
                 /\ o.actions.v[i].v.text = JString(actions[i].text)
                 /\ Len(o.actions.v[i].v.completedDates.v) = Len(actions[i].completedDates)
                 /\ \A k \in 1..Len(actions[i].completedDates) :
                       o.actions.v[i].v.completedDates.v[k]
                           = JString(actions[i].completedDates[k])
           /\ variant = "vault" =>
                 /\ o.weeklyTarget = JNumber(100 * weeklyTarget)
                 /\ Len(o.rewards.v) = Len(rewards)
                 /\ \A i \in 1..Len(rewards) :
                       /\ o.rewards.v[i].v.id = JString(rewards[i].id)
                       /\ o.rewards.v[i].v.title = JString(rewards[i].title)
                       /\ o.rewards.v[i].v.unlockStreak = JNumber(100 * rewards[i].unlockStreak)
                       /\ o.rewards.v[i].v.claimed = JBoolean(rewards[i].claimed)

\* the proof-history item holds every entry of proofDb, in order
ProofBlobShows ==
    variant = "proof" =>
        /\ storedProofDb.present /\ ~storedProofDb.empty /\ storedProofDb.parses
        /\ isArray(storedProofDb.value)
        /\ Len(storedProofDb.value.v) = Len(proofDb)
        /\ \A i \in 1..Len(proofDb) :
              LET e == storedProofDb.value.v[i].v
              IN  /\ e.id = JString(proofDb[i].id)
                  /\ e.date = JString(proofDb[i].date)
                  /\ e.note = JString(proofDb[i].note)
                  /\ e.streak = JNumber(proofDb[i].streak)
                  /\ e.progress = JNumber(proofDb[i].progress)

\* C24: every operation that changes a persisted field is followed by the
\* save that rewrites the primary item (and the proof-history item), so the
\* stored items show the state in memory; until that save has run the stored
\* items show the state before this one change.
C24_SaveFollowsChange ==
    [][ persisted' # persisted =>
          /\ BlobShows /\ ProofBlobShows
          /\ BlobShows' /\ ProofBlobShows'
          /\ storedState' # storedState \/ storedProofDb' # storedProofDb ]_vars

\* a proof note was saved: both items were rewritten and show the new state
C24_Witness ==
    /\ variant = "proof"
    /\ lastOp.op = "saveProofToDb"
    /\ Len(proofDb) > 0
    /\ proofDb[1].note = "wrote 200 words"
    /\ proofLog = ""
    /\ BlobShows
    /\ ProofBlobShows

-----------------------------------------------------------------------------
(* Properties of the task list: merging, blank input, toggling.            *)

\* the entries a suggest step added behind the list it found
Appended == {i \in 1..Len(actions') : i > Len(actions)}

\* C25: in the merging variant a suggested task is appended only if its
\* normalized text key differs from the key of every action already listed,
\* so a task added earlier in any letter case or punctuation is not
\* duplicated, and a second suggest in a row leaves the list as it was.
C25_Original ==
    [][ (variant = "vault" /\ Step("suggestActions")) =>
          /\ SubSeq(actions', 1, Len(actions)) = actions
          /\ \A i \in Appended : \A k \in 1..Len(actions) :
                normalizeTaskText(actions'[i].text) # normalizeTaskText(actions[k].text)
          /\ lastOp.op = "suggestActions" => actions' = actions ]_vars

\* the hand-added task and the suggested one share a key and are both listed
C25_Counterexample ==
    /\ variant = "vault"
    /\ lastOp.op = "suggestActions"
    /\ \E i, k \in 1..Len(actions) :
          /\ i < k
          /\ actions[i].id = "h"
          /\ actions[i].text # actions[k].text
          /\ normalizeTaskText(actions[i].text) = normalizeTaskText(actions[k].text)

\* what the code compares: the lower-cased texts
C25_LowerCasedTexts ==
    [][ (variant = "vault" /\ Step("suggestActions")) =>
          /\ SubSeq(actions', 1, Len(actions)) = actions
          /\ \A i \in Appended : \A k \in 1..Len(actions) :
                toLowerCase(actions'[i].text) # toLowerCase(actions[k].text)
          /\ lastOp.op = "suggestActions" => actions' = actions ]_vars

\* C26: a blank required text makes the operation a no-op: add-action with a
\* blank draft leaves the action list unchanged, save-proof with a blank note
\* leaves the proof history and the note field unchanged, add-reward with a
\* blank title leaves the reward list unchanged.
C26_BlankIsNoOp ==
    [][ /\ (Step("addAction") /\ Blank(actionDraft)) => actions' = actions
        /\ (Step("saveProofToDb") /\ Blank(proofLog)) =>
              proofDb' = proofDb /\ proofLog' = proofLog
        /\ (Step("addReward") /\ Blank(rewardTitleDraft)) => rewards' = rewards ]_vars

\* a note of two spaces was typed and "save proof" pressed: nothing was
\* added to the history and the note field still holds the spaces
C26_Witness ==
    /\ variant = "proof"
    /\ lastOp.op = "saveProofToDb"
    /\ proofLog = "  "
    /\ nextId = 0
    /\ storedProofDb = encodeProofDb
    /\ \A i \in 1..Len(proofDb) : proofDb[i].id \in {"p0", "p1"}

-----------------------------------------------------------------------------
(* Properties of the wallet's total.                                       *)

\* the amount a press of "deposit" adds: the draft as a number rounded to
\* cents when that is more than 0, nothing otherwise
AcceptedDeposit ==
    LET parsed == NumberOf(depositDraft)
    IN  IF parsed.nan \/ parsed.milli < 0 \/ RoundToCents(parsed.milli) <= 0 THEN 0
        ELSE RoundToCents(parsed.milli)

\* stakeBalance + totalPenalties, in cents
Money == stakeBalance + totalPenalties

\* C27: money is conserved. The default state holds none, and over deposits,
\* rate changes, toggles, adds, removes, suggestions and penalties on any
\* days, stakeBalance + totalPenalties grows by each accepted deposit and by
\* nothing else, so it equals the sum of the accepted deposits.
C27_MoneyConserved ==
    /\ initialState \in {defaultState, defaultState @@ defaultState_page} => Money = 0
    /\ [][ Money' = Money + (IF Step("depositStake") THEN AcceptedDeposit ELSE 0) ]_vars

\* 20.00 was deposited and then a penalty moved money from the balance to
\* the penalties: the two still add up to what was there plus the deposit
C27_Witness ==
    /\ ops = 2
    /\ lastOp.op = "applyPenalty"
    /\ Len(penaltyLog) = 1
    /\ penaltyLog[1].changed
    /\ totalPenalties > initialState.totalPenalties
    /\ stakeBalance < initialState.stakeBalance + 2000
    /\ Money = initialState.stakeBalance + initialState.totalPenalties + 2000

-----------------------------------------------------------------------------
(* Properties of the toggle.                                               *)

\* the dates of a list other than one day, in their order
OtherDates(dates, day) == SelectSeq(dates, LAMBDA d : d # day)

\* a list with the completion of `day` switched for the actions with this id
Flip(list, id, day) ==
    [i \in 1..Len(list) |->
        IF list[i].id # id THEN list[i]
        ELSE IF \E k \in 1..Len(list[i].completedDates) : list[i].completedDates[k] = day
        THEN [list[i] EXCEPT !.completedDates = OtherDates(@, day)]
        ELSE [list[i] EXCEPT !.completedDates = Append(@, day)]]

\* today's key stands in a completedDates list at most once, at its end
TodayIsNewest ==
    \A i \in 1..Len(actions) : \A k \in 1..Len(actions[i].completedDates) :
        actions[i].completedDates[k] = DateKeyOf(now) => k = Len(actions[i].completedDates)

\* C28: toggle(id) changes only whether todayKey is among the completedDates
\* of the actions with that id: the other actions, the other dates and their
\* order, the order of the list and the wallet stay as they are; on a list
\* the program built, a second toggle of the same id on the same day gives
\* back the list the first one found.
C28_ToggleFrame ==
    /\ []TodayIsNewest
    /\ [][ Step("toggleTodayComplete") =>
            LET id == lastOp'.id
                day == DateKeyOf(now)
            IN  /\ Len(actions') = Len(actions)
                /\ \A i \in 1..Len(actions) :
                      /\ actions'[i].id = actions[i].id
                      /\ actions'[i].text = actions[i].text
                      /\ actions[i].id # id => actions'[i] = actions[i]
                      /\ actions[i].id = id =>
                            /\ OtherDates(actions'[i].completedDates, day)
                                  = OtherDates(actions[i].completedDates, day)
                            /\ (day \in Range(actions'[i].completedDates))
                                  = (day \notin Range(actions[i].completedDates))
                /\ actions' = Flip(actions, id, day)
                /\ Flip(actions', id, day) = actions
                /\ UNCHANGED <<stakeBalance, stakePerMiss, totalPenalties, lastPenaltyDate,
                               plannerGoal, plannerProblem, strictMode, deadlineTime,
                               proofLog, proofDb, weeklyTarget, rewards>> ]_vars

\* an action that was done today was toggled twice: the list is again the
\* list that was loaded, with today's key at the end of its dates
C28_Witness ==
    /\ ops = 2
    /\ lastOp.op = "toggleTodayComplete"
    /\ nextId = 0
    /\ actions = initialState.actions
    /\ \E i \in 1..Len(actions) :
          /\ actions[i].id = lastOp.id
          /\ Len(actions[i].completedDates) > 1
          /\ actions[i].completedDates[Len(actions[i].completedDates)] = DateKeyOf(now)

-----------------------------------------------------------------------------
(* Properties of the streak walk under the host's time zone.               *)

\* the action of the latest toggle is complete today
JustCompleted ==
    /\ lastOp.op = "toggleTodayComplete"
    /\ \E i \in 1..Len(actions) :
          /\ actions[i].id = lastOp.id
          /\ DateKeyOf(now) \in Range(actions[i].completedDates)

\* C29: at every UTC offset of the host the backward walk of getCurrentStreak
\* starts at the day key todayKey and every step goes back exactly one day
\* key, so right after an action is toggled complete the streak is at least 1.
C29_Original ==
    /\ DateKeyOf(LocalMidnight(DateKeyOf(now))) = DateKeyOf(now)
    /\ DateKeyOf(LocalMidnight(DateKeyOf(now)) - DayMs)
          = DateKeyOf(LocalMidnight(DateKeyOf(now))) - 1
    /\ JustCompleted => streak >= 1

\* east of UTC: an action was just toggled complete and the streak is 0
C29_Counterexample ==
    /\ off > 0
    /\ JustCompleted
    /\ streak = 0

\* the steps of the walk are one day key each at every offset, and at and
\* west of UTC the walk starts at todayKey
C29_WestOfUtc ==
    /\ DateKeyOf(LocalMidnight(DateKeyOf(now)) - DayMs)
          = DateKeyOf(LocalMidnight(DateKeyOf(now))) - 1
    /\ off <= 0 =>
          /\ DateKeyOf(LocalMidnight(DateKeyOf(now))) = DateKeyOf(now)
          /\ JustCompleted => streak >= 1

====
